---- MODULE Spec2Model ----
(***************************************************************************)
(* State-machine model of the phone-number authentication service:         *)
(* the OTP manager over the ephemeral store, the user store, the auth      *)
(* orchestrator (register / login / current-user resolution) and the       *)
(* admin user-management routes.                                           *)
(*                                                                         *)
(* Python values are modelled structurally: a str is a sequence of         *)
(* one-character strings, int() is a parser over such sequences, str() a   *)
(* printer; a JWT is the record of its payload and the key that signed it; *)
(* a password digest is the record of scheme, salt and plaintext.          *)
(***************************************************************************)
EXTENDS Integers, Sequences, FiniteSets, TLC

\* ------------------------------------------------------------------ bounds
\* number of clock advances explored in one behaviour
MaxTicks == 2
\* number of user ids the store hands out in one behaviour
MaxIds == 2
\* number of clock advances explored in the registration flows
MaxRegisterTicks == 1
\* largest update_id the chat platform delivers
MaxUpdateId == 2

\* ------------------------------------------------------- program constants
OTP_TTL == 300
COOLDOWN_TTL == 60
OTP_MIN == 100000
OTP_MAX == 999999
ACCESS_TOKEN_EXPIRE_MINUTES == 30
REFRESH_TOKEN_EXPIRE_DAYS == 30
DEDUP_TTL == 3600
PHONE_TTL == 600
HTTP_200 == 200
HTTP_201 == 201
HTTP_400 == 400
HTTP_401 == 401
HTTP_403 == 403
HTTP_404 == 404
HTTP_429 == 429
HTTP_500 == 500

\* ------------------------------------------------------------- Python str/int
DigitChars == <<"0", "1", "2", "3", "4", "5", "6", "7", "8", "9">>

IsDigitChar(c) == \E i \in 1..10 : DigitChars[i] = c

DigitVal(c) == (CHOOSE i \in 1..10 : DigitChars[i] = c) - 1

RECURSIVE StrOfNat(_)
\* str(n) for n >= 0: the decimal digits, no leading zeros
StrOfNat(n) ==
    IF n < 10 THEN <<DigitChars[n + 1]>>
    ELSE Append(StrOfNat(n \div 10), DigitChars[(n % 10) + 1])

RECURSIVE DigitsValue(_)
DigitsValue(s) ==
    IF s = <<>> THEN 0
    ELSE 10 * DigitsValue(SubSeq(s, 1, Len(s) - 1)) + DigitVal(s[Len(s)])

\* a Python value handed to int(): an int, a str, or None
PyInt(n) == [t |-> "int", n |-> n, s |-> <<>>]
PyStr(s) == [t |-> "str", n |-> 0, s |-> s]
PyNone == [t |-> "none", n |-> 0, s |-> <<>>]

\* int(x): [ok, n]; ok = FALSE stands for the ValueError / TypeError raised.
\* An int is returned as it is, a str is parsed as decimal digits (leading
\* zeros allowed), anything else in it raises ValueError; None raises TypeError.
IntOf(x) ==
    IF x.t = "int" THEN [ok |-> TRUE, n |-> x.n]
    ELSE IF x.t = "str" /\ x.s # <<>> /\ \A i \in 1..Len(x.s) : IsDigitChar(x.s[i])
         THEN [ok |-> TRUE, n |-> DigitsValue(x.s)]
         ELSE [ok |-> FALSE, n |-> 0]

\* ------------------------------------------------------------------ inputs
Phones == {"+998501234567", "+998901112233"}

\* codes random.randint can draw that the model explores
SampleCodes == {OTP_MIN, OTP_MAX}

\* candidate codes a caller may present to verify_otp: the printed sample
\* codes, one of them with a leading zero, and the all-zero code of the tests
Candidates ==
    {PyStr(StrOfNat(n)) : n \in SampleCodes}
        \cup {PyStr(<<"0">> \o StrOfNat(OTP_MIN)), PyStr(<<"0", "0", "0", "0", "0", "0">>)}

\* clock advances, in seconds
OtpDeltas == {1, 59, 300}

\* ------------------------------------------------------------------- state
VARIABLES
    now,      \* wall clock, seconds
    ticks,    \* clock advances made so far
    redis,    \* ephemeral store: key -> entry [live, val, exp]
    otpRet,   \* outcome of the last OtpService call
    issued,   \* per phone: the code the last successful create_otp returned, when,
              \* and the code of the one before
    used,     \* per phone: a verify_otp has succeeded since the last create_otp
    users,    \* user store: the set of user rows
    nextId,   \* number of the next id the store generates
    client,   \* per client: the tokens its last successful login handed it
    resp,     \* the last HTTP response sent
    reg,      \* per worker: the register request it is serving, step by step
    job,      \* per worker: the role-change request it is serving, step by step
    task,     \* per task slot: the process_update task the webhook spawned
    call      \* per worker: the create_otp call it is serving, step by step

vars == <<now, ticks, redis, otpRet, issued, used, users, nextId, client, resp, reg, job, task, call>>

\* everything outside the ephemeral store and the OTP manager
authVars == <<users, nextId, client, resp, reg, job, task, call>>

\* ----------------------------------------------------------- ephemeral store
\* an OTP key that is the same for every phone
OtpKey_Shared(phone) == <<"otp", "+998501234567">>

OtpKey(phone) == <<"otp", phone>>
CooldownKey(phone) == <<"otp_cooldown", phone>>
LastUpdateKey(chat_id) == <<"telegram_last_update", chat_id>>
PhoneKey(id) == <<"telegram_phone", id>>

\* the conversations of the chat platform: the private chat of sender 1001,
\* whose chat id is the sender's id, and a group chat
Chats == {1001, 1002}

\* the senders of the chat platform
Senders == {1001, 1003}

\* a phone string that is not in canonical form
Unnormalized == "unnormalized"

RedisKeys ==
    {OtpKey(p) : p \in Phones \cup {Unnormalized}}
        \cup {CooldownKey(p) : p \in Phones \cup {Unnormalized}}
        \cup {LastUpdateKey(c) : c \in Chats}
        \cup {PhoneKey(i) : i \in Chats \cup Senders}

NoEntry == [live |-> FALSE, val |-> <<>>, exp |-> 0]

\* GET key: the value, or None for a missing key
RedisGet(r, k) == IF r[k].live THEN PyStr(r[k].val) ELSE PyNone

\* SETEX key seconds value, at time t
RedisSetex(r, k, seconds, value, t) ==
    [r EXCEPT ![k] = [live |-> TRUE, val |-> value, exp |-> t + seconds]]

\* DEL key
RedisDelete(r, k) == [r EXCEPT ![k] = NoEntry]

\* TTL key at time t: remaining seconds, -2 for a missing key
RedisTtl(r, k, t) == IF r[k].live THEN r[k].exp - t ELSE -2

\* the store drops every key whose expiry time has been reached
RedisExpire(r, t) ==
    [k \in DOMAIN r |-> IF r[k].live /\ r[k].exp <= t THEN NoEntry ELSE r[k]]

\* truth value of a Python value used in `if x:` / `if not x:`
Truthy(x) == (x.t = "str" /\ x.s # <<>>) \/ (x.t = "int" /\ x.n # 0)

\* ---------------------------------------------------------------- OtpService
\* outcome of a call: what was called for which phone at what time, the
\* status it maps to, and the code / bool / seconds it returned
OtpRet(op, phone, status, code, ok, secs) ==
    [op |-> op, phone |-> phone, at |-> now, status |-> status, code |-> code,
     ok |-> ok, secs |-> secs]

\* a _generate_otp that pads a small number with zeros to six digits
GenerateOtp_ZeroPadded == {<<"0", "0", "0", "0", "0", "0">>, StrOfNat(OTP_MAX)}

\* OtpService._generate_otp
GenerateOtp == {StrOfNat(n) : n \in SampleCodes}

\* s is a result _generate_otp can return: str(n) of an n that
\* random.randint(100000, 999999) can draw
CanGenerate(s) ==
    LET v == IntOf(PyStr(s))
    IN  v.ok /\ v.n \in OTP_MIN..OTP_MAX /\ StrOfNat(v.n) = s

\* a create_otp that skips the cooldown check
CreateOtp_NoCooldown(phone) ==
    \E otp \in GenerateOtp :
        /\ redis' = RedisSetex(RedisSetex(redis, OtpKey(phone), OTP_TTL, otp, now),
                               CooldownKey(phone), COOLDOWN_TTL, <<"1">>, now)
        /\ otpRet' = OtpRet("create_otp", phone, HTTP_200, otp, TRUE, 0)
        /\ issued' = [issued EXCEPT ![phone] = [code |-> otp, at |-> now, prev |-> @.code]]
        /\ used' = [used EXCEPT ![phone] = FALSE]
        /\ UNCHANGED <<now, ticks, authVars>>

\* a create_otp that stores the OTP record with the lifetime of the cooldown
CreateOtp_ShortTtl(phone) ==
    \E otp \in GenerateOtp :
        /\ ~Truthy(RedisGet(redis, CooldownKey(phone)))
        /\ redis' = RedisSetex(RedisSetex(redis, OtpKey(phone), COOLDOWN_TTL, otp, now),
                               CooldownKey(phone), COOLDOWN_TTL, <<"1">>, now)
        /\ otpRet' = OtpRet("create_otp", phone, HTTP_200, otp, TRUE, 0)
        /\ issued' = [issued EXCEPT ![phone] = [code |-> otp, at |-> now, prev |-> @.code]]
        /\ used' = [used EXCEPT ![phone] = FALSE]
        /\ UNCHANGED <<now, ticks, authVars>>

\* a create_otp that keeps an OTP record that is still stored
CreateOtp_KeepsOld(phone) ==
    \E otp \in GenerateOtp :
        /\ ~Truthy(RedisGet(redis, CooldownKey(phone)))
        /\ redis' = RedisSetex(IF redis[OtpKey(phone)].live THEN redis
                               ELSE RedisSetex(redis, OtpKey(phone), OTP_TTL, otp, now),
                               CooldownKey(phone), COOLDOWN_TTL, <<"1">>, now)
        /\ otpRet' = OtpRet("create_otp", phone, HTTP_200, otp, TRUE, 0)
        /\ issued' = [issued EXCEPT ![phone] = [code |-> otp, at |-> now, prev |-> @.code]]
        /\ used' = [used EXCEPT ![phone] = FALSE]
        /\ UNCHANGED <<now, ticks, authVars>>

\* OtpService.create_otp
CreateOtp(phone) ==
    LET cooldown_key == CooldownKey(phone)
        cooldown_exists == RedisGet(redis, cooldown_key)
    IN  IF Truthy(cooldown_exists)
        THEN /\ otpRet' = OtpRet("create_otp", phone, HTTP_429, <<>>, FALSE, 0)
             /\ UNCHANGED <<now, ticks, redis, issued, used, authVars>>
        ELSE \E otp \in GenerateOtp :
             /\ redis' = RedisSetex(RedisSetex(redis, OtpKey(phone), OTP_TTL, otp, now),
                                    cooldown_key, COOLDOWN_TTL, <<"1">>, now)
             /\ otpRet' = OtpRet("create_otp", phone, HTTP_200, otp, TRUE, 0)
             /\ issued' = [issued EXCEPT ![phone] = [code |-> otp, at |-> now, prev |-> @.code]]
             /\ used' = [used EXCEPT ![phone] = FALSE]
             /\ UNCHANGED <<now, ticks, authVars>>

\* the outcome of verify_otp on store r: [ok, redis]
VerifyOtpOn(r, phone, otp) ==
    LET stored_otp == RedisGet(r, OtpKey(phone))
    IN  IF ~Truthy(stored_otp) THEN [ok |-> FALSE, redis |-> r]
        ELSE IF IntOf(stored_otp).n # IntOf(otp).n THEN [ok |-> FALSE, redis |-> r]
        ELSE [ok |-> TRUE, redis |-> RedisDelete(r, OtpKey(phone))]

\* a verify_otp that deletes the record whatever the candidate
VerifyOtp_DeleteAlways(phone, otp) ==
    LET v == VerifyOtpOn(redis, phone, otp)
    IN  /\ redis' = RedisDelete(redis, OtpKey(phone))
        /\ otpRet' = OtpRet("verify_otp", phone, HTTP_200, otp.s, v.ok, 0)
        /\ used' = [used EXCEPT ![phone] = @ \/ v.ok]
        /\ UNCHANGED <<now, ticks, issued, authVars>>

\* a verify_otp that forgets to delete the record
VerifyOtp_NoDelete(phone, otp) ==
    LET v == VerifyOtpOn(redis, phone, otp)
    IN  /\ otpRet' = OtpRet("verify_otp", phone, HTTP_200, otp.s, v.ok, 0)
        /\ used' = [used EXCEPT ![phone] = @ \/ v.ok]
        /\ UNCHANGED <<now, ticks, redis, issued, authVars>>

\* OtpService.verify_otp
VerifyOtp(phone, otp) ==
    LET v == VerifyOtpOn(redis, phone, otp)
    IN  /\ redis' = v.redis
        /\ otpRet' = OtpRet("verify_otp", phone, HTTP_200, otp.s, v.ok, 0)
        /\ used' = [used EXCEPT ![phone] = @ \/ v.ok]
        /\ UNCHANGED <<now, ticks, issued, authVars>>

Max(a, b) == IF a >= b THEN a ELSE b

\* a get_cooldown that returns what redis.ttl answered
GetCooldown_NoClamp(phone) ==
    LET ttl == RedisTtl(redis, CooldownKey(phone), now)
    IN  /\ otpRet' = OtpRet("get_cooldown", phone, HTTP_200, <<>>, TRUE, ttl)
        /\ UNCHANGED <<now, ticks, redis, issued, used, authVars>>

\* OtpService.get_cooldown
GetCooldown(phone) ==
    LET ttl == RedisTtl(redis, CooldownKey(phone), now)
    IN  /\ otpRet' = OtpRet("get_cooldown", phone, HTTP_200, <<>>, TRUE, Max(ttl, 0))
        /\ UNCHANGED <<now, ticks, redis, issued, used, authVars>>

\* a clock that advances while the store keeps every key
Tick_NoExpire(d) ==
    /\ ticks < MaxTicks
    /\ now' = now + d
    /\ ticks' = ticks + 1
    /\ UNCHANGED <<redis, otpRet, issued, used, authVars>>

\* the clock advances by d seconds and the store expires what is due
Tick(d) ==
    /\ ticks < MaxTicks
    /\ now' = now + d
    /\ ticks' = ticks + 1
    /\ redis' = RedisExpire(redis, now + d)
    /\ UNCHANGED <<otpRet, issued, used, authVars>>


\* ------------------------------------------------------------ Credential hasher
NoDigest == [scheme |-> "", salt |-> "", pw |-> ""]

\* pwd_context.hash: a salted argon2 digest of the password
HashPassword(password, salt) == [scheme |-> "argon2", salt |-> salt, pw |-> password]

\* pwd_context.verify
VerifyPassword(plain_password, hashed_password) ==
    hashed_password.scheme = "argon2" /\ hashed_password.pw = plain_password

Salts == {"salt-a"}

\* ------------------------------------------------------------------ user store
Roles == {"admin", "ordinary"}

\* the k-th id the store generates: str(uuid.uuid4()), 36 characters with
\* hyphens at 9, 14, 19, 24 and the version digit 4 at 15
Uuid(k) ==
    [i \in 1..36 |->
        IF i \in {9, 14, 19, 24} THEN "-"
        ELSE IF i = 15 THEN "4"
        ELSE IF i = 20 THEN "a"
        ELSE IF i = 36 THEN DigitChars[k + 1]
        ELSE "0"]

\* a row of table users
UserRow(id, first_name, last_name, phone_number, hashed_password, role, is_active) ==
    [id |-> id, first_name |-> first_name, last_name |-> last_name,
     phone_number |-> phone_number, hashed_password |-> hashed_password,
     role |-> role, is_active |-> is_active]

\* INSERT into users without the unique index on phone_number
InsertUser_NoUnique(us, row) ==
    IF \E u \in us : u.id = row.id
    THEN [ok |-> FALSE, users |-> us]
    ELSE [ok |-> TRUE, users |-> us \cup {row}]

\* INSERT into users: id is the primary key and phone_number is unique; a
\* violation raises IntegrityError and stores nothing
InsertUser(us, row) ==
    IF \E u \in us : u.id = row.id \/ u.phone_number = row.phone_number
    THEN [ok |-> FALSE, users |-> us]
    ELSE [ok |-> TRUE, users |-> us \cup {row}]

\* AuthRepository.get_user_by_phone: the matching rows (none or one)
GetUserByPhone(us, phone_number) == {u \in us : u.phone_number = phone_number}

\* AuthRepository.get_user_by_id; the id column is text, and a number bound
\* to it is compared by its decimal text
GetUserById(us, user_id) ==
    {u \in us : u.id = (IF user_id.t = "int" THEN StrOfNat(user_id.n) ELSE user_id.s)}

\* AuthRepository.create_user: role defaults to ORDINARY, is_active to true,
\* id to a new uuid
CreateUser(us, k, phone_number, hashed_password, first_name, last_name, role) ==
    LET new_user == UserRow(Uuid(k), first_name, last_name, phone_number,
                            hashed_password, role, TRUE)
        ins == InsertUser(us, new_user)
    IN  [ok |-> ins.ok, users |-> ins.users, user |-> new_user]

\* AuthRepository.update_user_role
RepoUpdateUserRole(us, user_id, role) ==
    {IF u.id = user_id THEN [u EXCEPT !.role = role] ELSE u : u \in us}

\* AuthRepository.update_user_status
RepoUpdateUserStatus(us, user_id, is_active) ==
    {IF u.id = user_id THEN [u EXCEPT !.is_active = is_active] ELSE u : u \in us}

\* AuthRepository.delete_user
RepoDeleteUser(us, user_id) == {u \in us : u.id # user_id}

\* AuthRepository.get_admin_count
GetAdminCount(us) == Cardinality({u \in us : u.role = "admin"})

\* ---------------------------------------------------------------- Token issuer
SECRET_KEY == "SECRET_KEY"
OtherKeys == {"other-secret"}

NoToken == [sub |-> PyNone, exp |-> 0, key |-> ""]

\* jwt.encode(payload, key): the payload bound to the key that signed it
JwtEncode(sub, exp, key) == [sub |-> sub, exp |-> exp, key |-> key]

\* jwt.decode(token, key): the payload, or PyJWTError (ok = FALSE) when the
\* signature was made with another key or exp is not in the future
JwtDecode(token, key, t) ==
    IF token.key = key /\ t < token.exp
    THEN [ok |-> TRUE, sub |-> token.sub]
    ELSE [ok |-> FALSE, sub |-> PyNone]

\* AuthService._create_access_token; sub is str(user_id)
CreateAccessToken(user_id, t) ==
    JwtEncode(PyStr(user_id), t + ACCESS_TOKEN_EXPIRE_MINUTES * 60, SECRET_KEY)

\* AuthService._create_refresh_token
CreateRefreshToken(user_id, t) ==
    JwtEncode(PyStr(user_id), t + REFRESH_TOKEN_EXPIRE_DAYS * 24 * 60 * 60, SECRET_KEY)

\* ------------------------------------------------------------------ AuthService
\* an HTTP response: status, detail of the error, the access token of the
\* body, the refresh_token cookie it sets, the id of the user it resolved,
\* the bearer token the request carried, and the time it was served
Resp(op, status, detail, access, cookie, user, tok) ==
    [op |-> op, at |-> now, status |-> status, detail |-> detail, access |-> access,
     cookie |-> cookie, user |-> user, tok |-> tok]

\* a get_current_user that answers a failed decode with 403
GetCurrentUser_WrongStatus(us, token, t) ==
    LET d == JwtDecode(token, SECRET_KEY, t)
        user_id == IntOf(d.sub)
    IN  IF ~d.ok \/ ~user_id.ok
        THEN [status |-> HTTP_403, detail |-> "Could not validate credentials", user |-> {}]
        ELSE LET user == GetUserById(us, PyInt(user_id.n))
             IN  IF user = {}
                 THEN [status |-> HTTP_401, detail |-> "User not found", user |-> {}]
                 ELSE [status |-> HTTP_200, detail |-> "", user |-> user]

\* a get_current_user whose 401 says what was wrong with the token
GetCurrentUser_TellsCause(us, token, t) ==
    LET d == JwtDecode(token, SECRET_KEY, t)
        user_id == IntOf(d.sub)
    IN  IF token.key # SECRET_KEY
        THEN [status |-> HTTP_401, detail |-> "Invalid signature", user |-> {}]
        ELSE IF ~d.ok
        THEN [status |-> HTTP_401, detail |-> "Token expired", user |-> {}]
        ELSE IF ~user_id.ok \/ GetUserById(us, PyInt(user_id.n)) = {}
        THEN [status |-> HTTP_401, detail |-> "User not found", user |-> {}]
        ELSE [status |-> HTTP_200, detail |-> "",
              user |-> GetUserById(us, PyInt(user_id.n))]

\* a get_current_user that trusts a token that decodes, without a lookup
GetCurrentUser_NoLookup(us, token, t) ==
    IF ~JwtDecode(token, SECRET_KEY, t).ok
    THEN [status |-> HTTP_401, detail |-> "Could not validate credentials", user |-> {}]
    ELSE [status |-> HTTP_200, detail |-> "", user |-> {}]

\* AuthService.get_current_user
GetCurrentUser(us, token, t) ==
    LET d == JwtDecode(token, SECRET_KEY, t)
        user_id == IntOf(d.sub)
    IN  IF ~d.ok \/ ~user_id.ok
        THEN [status |-> HTTP_401, detail |-> "Could not validate credentials", user |-> {}]
        ELSE LET user == GetUserById(us, PyInt(user_id.n))
             IN  IF user = {}
                 THEN [status |-> HTTP_401, detail |-> "User not found", user |-> {}]
                 ELSE [status |-> HTTP_200, detail |-> "", user |-> user]

\* a login_user that tells an unknown phone from a wrong password
LoginUser_Leaky(us, phone, password, t) ==
    LET found == GetUserByPhone(us, phone)
    IN  IF found = {}
        THEN [status |-> HTTP_401, detail |-> "User not found",
              access |-> NoToken, cookie |-> NoToken]
        ELSE LET user == CHOOSE u \in found : TRUE
             IN  IF ~VerifyPassword(password, user.hashed_password)
                 THEN [status |-> HTTP_401, detail |-> "Invalid phone or password",
                       access |-> NoToken, cookie |-> NoToken]
                 ELSE [status |-> HTTP_200, detail |-> "",
                       access |-> CreateAccessToken(user.id, t),
                       cookie |-> CreateRefreshToken(user.id, t)]

\* AuthService.login_user: the JSONResponse with the access token and the
\* refresh_token cookie, or the HTTPException raised
LoginUser(us, phone, password, t) ==
    LET found == GetUserByPhone(us, phone)
    IN  IF found = {} \/ ~VerifyPassword(password, (CHOOSE u \in found : TRUE).hashed_password)
        THEN [status |-> HTTP_401, detail |-> "Invalid phone or password",
              access |-> NoToken, cookie |-> NoToken]
        ELSE LET user == CHOOSE u \in found : TRUE
             IN  [status |-> HTTP_200, detail |-> "",
                  access |-> CreateAccessToken(user.id, t),
                  cookie |-> CreateRefreshToken(user.id, t)]

\* what register_user hands back to the route once the user is stored: it
\* awaits login_user and drops its response, so the route returns None unless
\* login_user raised
RegisterReturn(login) ==
    IF login.status # HTTP_200
    THEN [status |-> login.status, detail |-> login.detail,
          access |-> NoToken, cookie |-> NoToken]
    ELSE [status |-> HTTP_201, detail |-> "", access |-> NoToken, cookie |-> NoToken]

\* a register_user that creates the user without looking at the OTP result
RegisterUser_NoOtpCheck(us, r, k, t, user, salt) ==
    LET c == CreateUser(us, k, user.phone_number, HashPassword(user.password, salt),
                        user.first_name, user.last_name, "ordinary")
        ret == RegisterReturn(LoginUser(c.users, user.phone_number, user.password, t))
    IN  IF ~c.ok
        THEN [status |-> HTTP_500, detail |-> "IntegrityError", access |-> NoToken,
              cookie |-> NoToken, users |-> us, redis |-> r, created |-> FALSE]
        ELSE [status |-> ret.status, detail |-> ret.detail, access |-> ret.access,
              cookie |-> ret.cookie, users |-> c.users, redis |-> r, created |-> TRUE]

\* a register_user that hands the role field of the request body to create_user
RegisterUser_RoleFromBody(us, r, k, t, user, salt) ==
    LET existing_user == GetUserByPhone(us, user.phone_number)
        v == VerifyOtpOn(r, user.phone_number, PyInt(user.otp))
        c == CreateUser(us, k, user.phone_number, HashPassword(user.password, salt),
                        user.first_name, user.last_name, user.role)
    IN  IF existing_user # {} \/ ~v.ok \/ ~c.ok
        THEN [status |-> HTTP_400, detail |-> "", access |-> NoToken, cookie |-> NoToken,
              users |-> us, redis |-> v.redis, created |-> FALSE]
        ELSE [status |-> HTTP_201, detail |-> "", access |-> NoToken, cookie |-> NoToken,
              users |-> c.users, redis |-> v.redis, created |-> TRUE]

\* AuthService.register_user, run without interruption, as the route
\* POST /auth/register (status_code 201) answers it
RegisterUser(us, r, k, t, user, salt) ==
    LET existing_user == GetUserByPhone(us, user.phone_number)
        v == VerifyOtpOn(r, user.phone_number, PyInt(user.otp))
        c == CreateUser(us, k, user.phone_number, HashPassword(user.password, salt),
                        user.first_name, user.last_name, "ordinary")
        ret == RegisterReturn(LoginUser(c.users, user.phone_number, user.password, t))
    IN  IF existing_user # {}
        THEN [status |-> HTTP_400, detail |-> "User with this phone number already exists",
              access |-> NoToken, cookie |-> NoToken,
              users |-> us, redis |-> r, created |-> FALSE]
        ELSE IF ~v.ok
        THEN [status |-> HTTP_400, detail |-> "Invalid OTP",
              access |-> NoToken, cookie |-> NoToken,
              users |-> us, redis |-> v.redis, created |-> FALSE]
        ELSE IF ~c.ok
        THEN [status |-> HTTP_500, detail |-> "IntegrityError",
              access |-> NoToken, cookie |-> NoToken,
              users |-> us, redis |-> v.redis, created |-> FALSE]
        ELSE [status |-> ret.status, detail |-> ret.detail,
              access |-> ret.access, cookie |-> ret.cookie,
              users |-> c.users, redis |-> v.redis, created |-> TRUE]

\* AuthService.refresh_access_token
RefreshAccessToken(us, refresh_token, t) ==
    LET d == JwtDecode(refresh_token, SECRET_KEY, t)
        user_id == IntOf(d.sub)
    IN  IF ~d.ok \/ ~user_id.ok
        THEN [status |-> HTTP_401,
              detail |-> "Refresh token expired or invalid. Please log in again.",
              access |-> NoToken]
        ELSE LET user == GetUserById(us, PyInt(user_id.n))
             IN  IF user = {}
                 THEN [status |-> HTTP_401, detail |-> "User not found", access |-> NoToken]
                 ELSE [status |-> HTTP_200, detail |-> "",
                       access |-> CreateAccessToken((CHOOSE u \in user : TRUE).id, t)]

\* POST /auth/refresh: the refresh_token cookie of the request, or 401 without it
Refresh(us, cookie, t) ==
    IF cookie = NoToken
    THEN [status |-> HTTP_401, detail |-> "No refresh token provided", access |-> NoToken]
    ELSE RefreshAccessToken(us, cookie, t)

\* the Authorization header of a request: absent, or a scheme and credentials
NoHeader == [scheme |-> "", credentials |-> NoToken]
Authorization(scheme, token) == [scheme |-> scheme, credentials |-> token]

\* AuthService.logout_user declares no parameter besides self
LOGOUT_USER_PARAMS == 0

\* the route calls service.logout_user(access_token): one argument
LOGOUT_CALL_ARGS == 1

\* AuthService.logout_user: 200 and delete_cookie("refresh_token")
LogoutUser ==
    [status |-> HTTP_200, detail |-> "Logged out successfully", delete_cookie |-> TRUE]

\* POST /auth/logout: takes the bearer token out of the header and calls
\* logout_user with it; a call with more arguments than the method takes
\* raises TypeError, which the server answers with 500
Logout(authorization) ==
    LET access_token == IF authorization.scheme = "Bearer"
                        THEN authorization.credentials ELSE NoToken
        out == IF LOGOUT_CALL_ARGS # LOGOUT_USER_PARAMS
               THEN [status |-> HTTP_500, detail |-> "TypeError", delete_cookie |-> FALSE]
               ELSE LogoutUser
    IN  [status |-> out.status, detail |-> out.detail,
         delete_cookie |-> out.delete_cookie, access_token |-> access_token]

\* ------------------------------------------------------------------ dependencies
\* get_current_admin_active: get_current_user, then get_current_admin (role)
\* and require_active_user (is_active), on the one user the token resolved to
GetCurrentAdminActive(us, token, t) ==
    LET cu == GetCurrentUser(us, token, t)
    IN  IF cu.status # HTTP_200
        THEN [ok |-> FALSE, status |-> cu.status, detail |-> cu.detail, user |-> {}]
        ELSE LET current_user == CHOOSE u \in cu.user : TRUE
             IN  IF current_user.role # "admin"
                 THEN [ok |-> FALSE, status |-> HTTP_403,
                       detail |-> "Only admins can access this resource", user |-> {}]
                 ELSE IF ~current_user.is_active
                 THEN [ok |-> FALSE, status |-> HTTP_403,
                       detail |-> "Your account has been deactivated", user |-> {}]
                 ELSE [ok |-> TRUE, status |-> HTTP_200, detail |-> "", user |-> cu.user]

\* ------------------------------------------------------------------ admin routes
\* PATCH /admin/users/{user_id}/role, once admin_user is resolved
UpdateUserRole(us, admin_user, user_id, role) ==
    IF user_id = admin_user.id
    THEN [status |-> HTTP_400, detail |-> "Cannot change your own role", users |-> us]
    ELSE IF GetUserById(us, PyStr(user_id)) = {}
    THEN [status |-> HTTP_404, detail |-> "User not found", users |-> us]
    ELSE IF role = "ordinary" /\ GetAdminCount(us) <= 1
    THEN [status |-> HTTP_400,
          detail |-> "Cannot demote the last admin. Promote another user to admin first",
          users |-> us]
    ELSE [status |-> HTTP_200, detail |-> "", users |-> RepoUpdateUserRole(us, user_id, role)]

\* PATCH /admin/users/{user_id}/status, once admin_user is resolved
UpdateUserStatus(us, admin_user, user_id, is_active) ==
    IF user_id = admin_user.id
    THEN [status |-> HTTP_400, detail |-> "Cannot deactivate your own account", users |-> us]
    ELSE IF GetUserById(us, PyStr(user_id)) = {}
    THEN [status |-> HTTP_404, detail |-> "User not found", users |-> us]
    ELSE [status |-> HTTP_200, detail |-> "",
          users |-> RepoUpdateUserStatus(us, user_id, is_active)]

\* DELETE /admin/users/{user_id}, once admin_user is resolved
DeleteUser(us, admin_user, user_id) ==
    LET found == GetUserById(us, PyStr(user_id))
    IN  IF user_id = admin_user.id
        THEN [status |-> HTTP_400, detail |-> "Cannot delete your own account", users |-> us]
        ELSE IF found = {}
        THEN [status |-> HTTP_404, detail |-> "User not found", users |-> us]
        ELSE IF (CHOOSE u \in found : TRUE).role = "admin" /\ GetAdminCount(us) <= 1
        THEN [status |-> HTTP_400,
              detail |-> "Cannot delete the last admin. Promote another user to admin first",
              users |-> us]
        ELSE [status |-> HTTP_200, detail |-> "", users |-> RepoDeleteUser(us, user_id)]

\* the read-only admin routes, once admin_user is resolved: GET /admin/users,
\* /admin/users/{user_id}, /admin/admins and /admin/stats
AdminReadOps == {"list_all_users", "get_user_detail", "list_admins", "get_admin_stats"}

AdminRead(us, op, user_id) ==
    IF op = "get_user_detail" /\ GetUserById(us, PyStr(user_id)) = {}
    THEN [status |-> HTTP_404, detail |-> "User not found", users |-> us]
    ELSE [status |-> HTTP_200, detail |-> "", users |-> us]

\* an admin route as FastAPI runs it: the dependency first, the body only if
\* the dependency resolved an admin; body is [status, detail, users]
AdminRoute(op, token, dep, body) ==
    IF ~dep.ok
    THEN /\ resp' = Resp(op, dep.status, dep.detail, NoToken, NoToken, <<>>, token)
         /\ users' = users
    ELSE /\ resp' = Resp(op, body.status, body.detail, NoToken, NoToken,
                         (CHOOSE u \in dep.user : TRUE).id, token)
         /\ users' = body.users

\* ------------------------------------------------------------------ requests
Passwords == {"Password123", "WrongPassword"}

\* the ids the store can have handed out
UserIds == {Uuid(k) : k \in 1..MaxIds}

\* bearer tokens a caller can present: those a login handed out, unsigned
\* garbage, and tokens an outsider signs with a key of their own for any
\* subject, a stored id or a number
TokenInputs ==
    {client[c].access : c \in Phones} \cup {client[c].cookie : c \in Phones}
        \cup {JwtEncode(sub, now + ACCESS_TOKEN_EXPIRE_MINUTES * 60, k) :
                sub \in {PyStr(u.id) : u \in users} \cup {PyStr(<<"1">>)}, k \in OtherKeys}

\* a row stored directly in the table, the way the deployment provisions its
\* first admin and the tests provision their users
SeedUser(phone, role, is_active) ==
    /\ nextId <= MaxIds
    /\ \E salt \in Salts :
        LET row == UserRow(Uuid(nextId), "Test", "User", phone,
                           HashPassword("Password123", salt), role, is_active)
            ins == InsertUser(users, row)
        IN  /\ ins.ok
            /\ users' = ins.users
    /\ nextId' = nextId + 1
    /\ UNCHANGED <<now, ticks, redis, otpRet, issued, used, client, resp, reg, job, task, call>>

\* POST /auth/register
ReqRegister(phone, password, otp) ==
    \E salt \in Salts, role \in Roles :
        LET user == [first_name |-> "John", last_name |-> "Doe", phone_number |-> phone,
                     password |-> password, otp |-> otp, role |-> role]
            out == RegisterUser(users, redis, nextId, now, user, salt)
        IN  /\ out.created => nextId <= MaxIds
            /\ users' = out.users
            /\ redis' = out.redis
            /\ nextId' = IF out.created THEN nextId + 1 ELSE nextId
            /\ resp' = Resp("register", out.status, out.detail, out.access, out.cookie,
                            <<>>, NoToken)
            /\ UNCHANGED <<now, ticks, otpRet, issued, used, client, reg, job, task, call>>

\* POST /auth/login; the caller keeps the tokens of a successful login
ReqLogin(phone, password) ==
    LET out == LoginUser(users, phone, password, now)
    IN  /\ resp' = Resp("login", out.status, out.detail, out.access, out.cookie,
                        <<>>, NoToken)
        /\ client' = IF out.status = HTTP_200
                     THEN [client EXCEPT ![phone] = [access |-> out.access,
                                                     cookie |-> out.cookie]]
                     ELSE client
        /\ UNCHANGED <<now, ticks, redis, otpRet, issued, used, users, nextId, reg, job, task, call>>

\* a request to a route that depends on get_current_user
ReqGetCurrentUser(token) ==
    LET out == GetCurrentUser(users, token, now)
    IN  /\ resp' = Resp("get_current_user", out.status, out.detail, NoToken, NoToken,
                        IF out.user = {} THEN <<>> ELSE (CHOOSE u \in out.user : TRUE).id,
                        token)
        /\ UNCHANGED <<now, ticks, redis, otpRet, issued, used, users, nextId, client, reg, job, task, call>>

\* PATCH /admin/users/{user_id}/role
ReqUpdateUserRole(token, user_id, role) ==
    LET dep == GetCurrentAdminActive(users, token, now)
    IN  /\ AdminRoute("update_user_role", token, dep,
                      UpdateUserRole(users, CHOOSE u \in dep.user : TRUE, user_id, role))
        /\ UNCHANGED <<now, ticks, redis, otpRet, issued, used, nextId, client, reg, job, task, call>>

\* PATCH /admin/users/{user_id}/status
ReqUpdateUserStatus(token, user_id, is_active) ==
    LET dep == GetCurrentAdminActive(users, token, now)
    IN  /\ AdminRoute("update_user_status", token, dep,
                      UpdateUserStatus(users, CHOOSE u \in dep.user : TRUE, user_id, is_active))
        /\ UNCHANGED <<now, ticks, redis, otpRet, issued, used, nextId, client, reg, job, task, call>>

\* DELETE /admin/users/{user_id}
ReqDeleteUser(token, user_id) ==
    LET dep == GetCurrentAdminActive(users, token, now)
    IN  /\ AdminRoute("delete_user", token, dep,
                      DeleteUser(users, CHOOSE u \in dep.user : TRUE, user_id))
        /\ UNCHANGED <<now, ticks, redis, otpRet, issued, used, nextId, client, reg, job, task, call>>

\* GET /admin/users, /admin/users/{user_id}, /admin/admins, /admin/stats
ReqAdminRead(token, op, user_id) ==
    LET dep == GetCurrentAdminActive(users, token, now)
    IN  /\ AdminRoute(op, token, dep, AdminRead(users, op, user_id))
        /\ UNCHANGED <<now, ticks, redis, otpRet, issued, used, nextId, client, reg, job, task, call>>

\* POST /auth/refresh with the cookie the client holds; the client keeps the
\* access token of a successful answer
ReqRefresh(c) ==
    LET out == Refresh(users, client[c].cookie, now)
    IN  /\ resp' = Resp("refresh", out.status, out.detail, out.access, NoToken,
                        <<>>, client[c].cookie)
        /\ client' = IF out.status = HTTP_200
                     THEN [client EXCEPT ![c].access = out.access]
                     ELSE client
        /\ UNCHANGED <<now, ticks, redis, otpRet, issued, used, users, nextId, reg, job, task, call>>

\* POST /auth/logout; a 200 answer deletes the client's refresh_token cookie
ReqLogout(c, authorization) ==
    LET out == Logout(authorization)
    IN  /\ resp' = Resp("logout", out.status, out.detail, NoToken, NoToken,
                        <<>>, out.access_token)
        /\ client' = IF out.delete_cookie
                     THEN [client EXCEPT ![c].cookie = NoToken]
                     ELSE client
        /\ UNCHANGED <<now, ticks, redis, otpRet, issued, used, users, nextId, reg, job, task, call>>

\* a row removed directly through the repository, as an operator of the
\* database and the repository tests do
RemoveUser(user_id) ==
    /\ GetUserById(users, PyStr(user_id)) # {}
    /\ users' = RepoDeleteUser(users, user_id)
    /\ UNCHANGED <<now, ticks, redis, otpRet, issued, used, nextId, client, resp, reg, job, task, call>>

\* the row of a stored user is given another role or another status, as
\* update_user_role and update_user_status write it
ChangeUser(user_id, role, is_active) ==
    /\ GetUserById(users, PyStr(user_id)) # {}
    /\ users' = RepoUpdateUserStatus(RepoUpdateUserRole(users, user_id, role),
                                     user_id, is_active)
    /\ users' # users
    /\ UNCHANGED <<now, ticks, redis, otpRet, issued, used, nextId, client, resp, reg, job, task, call>>

\* ------------------------------------------------- register_user, step by step
\* A worker serves POST /auth/register; every await of register_user is a
\* point where the other worker may run.
Workers == {"w1", "w2"}

RegUnchanged == <<now, ticks, otpRet, issued, used, client, resp, job, task, call>>

\* the request arrives: register_user starts
RegStart(w, phone, password, otp) ==
    /\ reg[w].pc \in {"idle", "done"}
    /\ reg' = [reg EXCEPT ![w] = [pc |-> "check", phone |-> phone, password |-> password,
                                  otp |-> otp, status |-> 0, created |-> FALSE]]
    /\ UNCHANGED <<RegUnchanged, users, nextId, redis>>

\* await get_user_by_phone: 400 if the phone is registered
RegCheckExisting(w) ==
    /\ reg[w].pc = "check"
    /\ reg' = IF GetUserByPhone(users, reg[w].phone) # {}
              THEN [reg EXCEPT ![w].pc = "done", ![w].status = HTTP_400]
              ELSE [reg EXCEPT ![w].pc = "otp_get"]
    /\ UNCHANGED <<RegUnchanged, users, nextId, redis>>

\* verify_otp, await redis.get and the comparison: 400 if absent or different
RegOtpGet(w) ==
    /\ reg[w].pc = "otp_get"
    /\ LET stored_otp == RedisGet(redis, OtpKey(reg[w].phone))
       IN  reg' = IF ~Truthy(stored_otp) \/ IntOf(stored_otp).n # IntOf(PyInt(reg[w].otp)).n
                  THEN [reg EXCEPT ![w].pc = "done", ![w].status = HTTP_400]
                  ELSE [reg EXCEPT ![w].pc = "otp_delete"]
    /\ UNCHANGED <<RegUnchanged, users, nextId, redis>>

\* verify_otp, await redis.delete
RegOtpDelete(w) ==
    /\ reg[w].pc = "otp_delete"
    /\ redis' = RedisDelete(redis, OtpKey(reg[w].phone))
    /\ reg' = [reg EXCEPT ![w].pc = "insert"]
    /\ UNCHANGED <<RegUnchanged, users, nextId>>

\* await create_user: the INSERT and its commit; IntegrityError surfaces as 500
RegInsert(w) ==
    /\ reg[w].pc = "insert"
    /\ nextId <= MaxIds
    /\ \E salt \in Salts :
        LET c == CreateUser(users, nextId, reg[w].phone,
                            HashPassword(reg[w].password, salt), "John", "Doe", "ordinary")
        IN  /\ users' = c.users
            /\ nextId' = nextId + 1
            /\ reg' = IF c.ok
                      THEN [reg EXCEPT ![w].pc = "login", ![w].created = TRUE]
                      ELSE [reg EXCEPT ![w].pc = "done", ![w].status = HTTP_500]
    /\ UNCHANGED <<RegUnchanged, redis>>

\* await login_user, whose response is dropped; the route answers 201
RegLogin(w) ==
    /\ reg[w].pc = "login"
    /\ reg' = [reg EXCEPT ![w].pc = "done",
                          ![w].status = RegisterReturn(LoginUser(users, reg[w].phone,
                                                       reg[w].password, now)).status]
    /\ UNCHANGED <<RegUnchanged, users, nextId, redis>>

\* ---------------------------------------------- update_user_role, step by step
\* A worker serves PATCH /admin/users/{user_id}/role; the dependency and every
\* await of the route body is a point where the other worker may run.
JobUnchanged == <<now, ticks, redis, otpRet, issued, used, nextId, client, resp, reg, task, call>>

\* the request arrives with the access token the client holds
RoleStart(w, c, user_id, role) ==
    /\ job[w].pc \in {"idle", "done"}
    /\ job' = [job EXCEPT ![w] = [pc |-> "depends", op |-> "update_user_role",
                                  token |-> client[c].access,
                                  user_id |-> user_id, role |-> role, is_active |-> TRUE,
                                  admin_id |-> <<>>, status |-> 0]]
    /\ UNCHANGED <<JobUnchanged, users>>

\* the worker runs to its next await:
\*   depends   Depends(get_current_admin_active)
\*   get_user  the own-id check and await get_user_by_id
\*   count     await get_admin_count and the last-admin check
\*   update    await update_user_role
RoleStep(w) ==
    LET j == job[w]
        dep == GetCurrentAdminActive(users, j.token, now)
    IN  /\ j.pc \in {"depends", "get_user", "count", "update"}
        /\ j.op = "update_user_role"
        /\ job' = [job EXCEPT ![w] =
                CASE j.pc = "depends" ->
                        IF ~dep.ok
                        THEN [j EXCEPT !.pc = "done", !.status = dep.status]
                        ELSE [j EXCEPT !.pc = "get_user",
                                       !.admin_id = (CHOOSE u \in dep.user : TRUE).id]
                  [] j.pc = "get_user" ->
                        IF j.user_id = j.admin_id
                        THEN [j EXCEPT !.pc = "done", !.status = HTTP_400]
                        ELSE IF GetUserById(users, PyStr(j.user_id)) = {}
                        THEN [j EXCEPT !.pc = "done", !.status = HTTP_404]
                        ELSE IF j.role = "ordinary"
                        THEN [j EXCEPT !.pc = "count"]
                        ELSE [j EXCEPT !.pc = "update"]
                  [] j.pc = "count" ->
                        IF GetAdminCount(users) <= 1
                        THEN [j EXCEPT !.pc = "done", !.status = HTTP_400]
                        ELSE [j EXCEPT !.pc = "update"]
                  [] OTHER -> [j EXCEPT !.pc = "done", !.status = HTTP_200]]
        /\ users' = IF j.pc = "update"
                    THEN RepoUpdateUserRole(users, j.user_id, j.role)
                    ELSE users
        /\ UNCHANGED JobUnchanged

\* ------------------------------- update_user_status, delete_user, step by step
\* the status-change request arrives with the access token the client holds
StatusStart(w, c, user_id, is_active) ==
    /\ job[w].pc \in {"idle", "done"}
    /\ job' = [job EXCEPT ![w] = [pc |-> "depends", op |-> "update_user_status",
                                  token |-> client[c].access,
                                  user_id |-> user_id, role |-> "", is_active |-> is_active,
                                  admin_id |-> <<>>, status |-> 0]]
    /\ UNCHANGED <<JobUnchanged, users>>

\* the delete request arrives with the access token the client holds
DeleteStart(w, c, user_id) ==
    /\ job[w].pc \in {"idle", "done"}
    /\ job' = [job EXCEPT ![w] = [pc |-> "depends", op |-> "delete_user",
                                  token |-> client[c].access,
                                  user_id |-> user_id, role |-> "", is_active |-> TRUE,
                                  admin_id |-> <<>>, status |-> 0]]
    /\ UNCHANGED <<JobUnchanged, users>>

\* the worker runs update_user_status or delete_user to its next await:
\*   depends   Depends(get_current_admin_active)
\*   get_user  the own-id check and await get_user_by_id
\*   count     delete_user of an admin: await get_admin_count and the
\*             last-admin check
\*   update    await update_user_status / await delete_user
StatusStep(w) ==
    LET j == job[w]
        dep == GetCurrentAdminActive(users, j.token, now)
        found == GetUserById(users, PyStr(j.user_id))
    IN  /\ j.pc \in {"depends", "get_user", "count", "update"}
        /\ j.op \in {"update_user_status", "delete_user"}
        /\ job' = [job EXCEPT ![w] =
                CASE j.pc = "depends" ->
                        IF ~dep.ok
                        THEN [j EXCEPT !.pc = "done", !.status = dep.status]
                        ELSE [j EXCEPT !.pc = "get_user",
                                       !.admin_id = (CHOOSE u \in dep.user : TRUE).id]
                  [] j.pc = "get_user" ->
                        IF j.user_id = j.admin_id
                        THEN [j EXCEPT !.pc = "done", !.status = HTTP_400]
                        ELSE IF found = {}
                        THEN [j EXCEPT !.pc = "done", !.status = HTTP_404]
                        ELSE IF j.op = "delete_user"
                                /\ (CHOOSE u \in found : TRUE).role = "admin"
                        THEN [j EXCEPT !.pc = "count"]
                        ELSE [j EXCEPT !.pc = "update"]
                  [] j.pc = "count" ->
                        IF GetAdminCount(users) <= 1
                        THEN [j EXCEPT !.pc = "done", !.status = HTTP_400]
                        ELSE [j EXCEPT !.pc = "update"]
                  [] OTHER ->
                        IF j.op = "delete_user" /\ found = {}
                        THEN [j EXCEPT !.pc = "done", !.status = HTTP_500]
                        ELSE [j EXCEPT !.pc = "done", !.status = HTTP_200]]
        /\ users' = IF j.pc # "update" THEN users
                    ELSE IF j.op = "delete_user" THEN RepoDeleteUser(users, j.user_id)
                    ELSE RepoUpdateUserStatus(users, j.user_id, j.is_active)
        /\ UNCHANGED JobUnchanged

\* ------------------------------------------------- process_update, step by step
\* POST /telegram/webhook answers at once and leaves the update to a task;
\* every await of process_update is a point where another task may run.
TaskUnchanged == <<ticks, otpRet, issued, used, users, nextId, client, resp, reg, job, call>>

\* the text of a phone number, as a '+' per leading plus sign and its digits
PhoneChars(p) == IF p = "+998501234567" THEN <<"+", "998501234567">>
                                        ELSE <<"+", "998901112233">>

\* the phone a normalized text spells
PhoneStr(text) ==
    IF \E p \in Phones : PhoneChars(p) = text
    THEN CHOOSE p \in Phones : PhoneChars(p) = text
    ELSE Unnormalized

\* str.lstrip('+')
RECURSIVE Lstrip(_)
Lstrip(s) == IF s # <<>> /\ s[1] = "+" THEN Lstrip(Tail(s)) ELSE s

\* a normalization that adds a plus sign where there is none and strips none
NormalizePhone_NoStrip(phone_number) ==
    IF phone_number # <<>> /\ phone_number[1] = "+"
    THEN phone_number
    ELSE <<"+">> \o phone_number

\* normalized_phone of send_otp_with_button
NormalizePhone(phone_number) ==
    LET normalized_phone == Lstrip(phone_number)
    IN  IF normalized_phone # <<>> /\ normalized_phone[1] = "+"
        THEN normalized_phone
        ELSE <<"+">> \o normalized_phone

\* the phone numbers a shared contact may carry: one number without a plus
\* sign, with one and with two, and another number
ContactPhones ==
    {Tail(PhoneChars("+998501234567")), PhoneChars("+998501234567"),
     <<"+">> \o PhoneChars("+998501234567"), PhoneChars("+998901112233")}

\* message.get("contact") of a message without one
NoContact == [phone_number |-> <<>>, user_id |-> 0]

\* an update of the chat platform: kind says whether it holds a message, a
\* callback_query or neither
Update(kind, update_id, chat_id, user_id, text, contact, callback_data) ==
    [kind |-> kind, update_id |-> update_id, chat_id |-> chat_id, user_id |-> user_id,
     text |-> text, contact |-> contact, callback_data |-> callback_data]

\* the kinds of update: one with a message, one with a callback_query, one
\* with neither
UpdateKinds == {"message", "callback_query", "none"}

\* the /start message, a press of another button and an empty update, in the
\* private chat and in the group chat
DedupUpdates ==
    {Update(k, u, c, 1001, IF k = "message" THEN "/start" ELSE "", NoContact, "") :
        k \in UpdateKinds, u \in 0..MaxUpdateId, c \in Chats}

\* the updates of the OTP conversation in chat chat_id with sender user_id:
\* /start, a shared contact, a press of the resend button
FlowUpdates(chat_id, user_id) ==
    LET Payloads ==
            {<<"message", "/start", NoContact, "">>,
             <<"callback_query", "", NoContact, "request_otp">>}
                \cup {<<"message", "", [phone_number |-> n, user_id |-> i], "">> :
                        n \in ContactPhones, i \in Senders}
    IN  {Update(p[1], u, chat_id, user_id, p[2], p[3], p[4]) :
            p \in Payloads, u \in 1..MaxUpdateId}

\* an outbound call of TelegramService for a chat: send_message with the
\* welcome, the code or the resend button, answer_callback with a modal
Sent(kind, chat_id, body) == [kind |-> kind, chat_id |-> chat_id, body |-> body]

\* where process_update ends: its return statements, the end of its body,
\* and the HTTPException of create_otp that it lets through
ReturnSites == {"return_no_update", "return_duplicate", "return_start", "return_contact",
                "return_not_found", "return_cooldown", "return_end", "raised"}

\* a task that has ended at site ret: its locals are gone, what it sent stays
Finished(t, ret) ==
    [pc |-> "done", ret |-> ret, chat_id |-> t.chat_id, user_id |-> 0, update_id |-> 0,
     last_update_id |-> PyNone, text |-> "", contact |-> NoContact,
     callback_data |-> "", phone_number |-> <<>>, cooldown |-> 0,
     otp |-> <<>>, sent |-> t.sent]

\* telegram_webhook: asyncio.create_task(process_update(data)); the task runs
\* to its first await, and returns at once for an update without message and
\* callback_query or without update_id
TelegramWebhook(w, data) ==
    LET t == [pc |-> "get", ret |-> "", chat_id |-> data.chat_id, user_id |-> data.user_id,
              update_id |-> data.update_id, last_update_id |-> PyNone,
              text |-> data.text, contact |-> data.contact,
              callback_data |-> data.callback_data,
              phone_number |-> <<>>, cooldown |-> 0, otp |-> <<>>, sent |-> <<>>]
    IN  /\ task[w].pc \in {"idle", "done"}
        /\ task' = [task EXCEPT ![w] =
                IF data.kind = "none" \/ data.update_id = 0
                THEN Finished(t, "return_no_update") ELSE t]
        /\ UNCHANGED <<TaskUnchanged, now, redis>>

\* last_update_id = await redis.get(f"telegram_last_update_{chat_id}")
ProcessUpdateGet(w) ==
    /\ task[w].pc = "get"
    /\ task' = [task EXCEPT ![w].pc = "set",
                            ![w].last_update_id =
                                RedisGet(redis, LastUpdateKey(task[w].chat_id))]
    /\ UNCHANGED <<TaskUnchanged, now, redis>>

\* if last_update_id and int(last_update_id) >= update_id: return
\* await redis.set(f"telegram_last_update_{chat_id}", update_id, ex=3600)
ProcessUpdateSet(w) ==
    LET t == task[w]
    IN  /\ t.pc = "set"
        /\ IF Truthy(t.last_update_id) /\ IntOf(t.last_update_id).n >= t.update_id
           THEN /\ task' = [task EXCEPT ![w] = Finished(t, "return_duplicate")]
                /\ redis' = redis
           ELSE /\ task' = [task EXCEPT ![w].pc = "handle"]
                /\ redis' = RedisSetex(redis, LastUpdateKey(t.chat_id), DEDUP_TTL,
                                       StrOfNat(t.update_id), now)
        /\ UNCHANGED <<TaskUnchanged, now>>

\* a process_update that takes every shared contact
Dispatch_AnyContact(t) ==
    IF t.text = "/start" THEN "send_welcome"
    ELSE IF t.contact # NoContact THEN "save_phone"
    ELSE IF t.callback_data = "request_otp" THEN "get_phone"
    ELSE "return_end"

\* the branch process_update takes for an accepted update
Dispatch(t) ==
    IF t.text = "/start" THEN "send_welcome"
    ELSE IF t.contact # NoContact
    THEN IF t.contact.user_id # t.user_id THEN "return_contact" ELSE "save_phone"
    ELSE IF t.callback_data = "request_otp" THEN "get_phone"
    ELSE "return_end"

\* a cooldown check of the resend button that lets every press through
CooldownBranch_Always(cooldown) == "save_phone"

\* if cooldown > 0: answer with the wait and return; else send a new OTP
CooldownBranch(cooldown) == IF cooldown > 0 THEN "answer_wait" ELSE "save_phone"

\* a send_otp_with_button that sends whatever create_otp answered
AfterCreateOtp_SendAnyway(status) == "send_code"

\* otp = await otp_service.create_otp(normalized_phone): the HTTPException of
\* a refused call ends the task
AfterCreateOtp(status) == IF status = HTTP_200 THEN "send_code" ELSE "raised"

\* a send_otp_with_button that sends the resend button before the code
SendOrder_ButtonFirst == <<"resend_button", "code">>

\* the two messages of send_otp_with_button, in the order it awaits them
SendOrder == <<"code", "resend_button">>

\* a worker that serves no create_otp call
NoCall == [pc |-> "idle", phone |-> "", otp |-> <<>>, status |-> 0, at |-> 0]

\* what process_update leaves unchanged after the dedup check
HandleUnchanged == <<ticks, otpRet, issued, used, users, nextId, client, resp, reg, job>>

\* the accepted update is handled, from one await to the next: the /start,
\* contact and request_otp branches and send_otp_with_button
ProcessUpdateHandle(w) ==
    LET t == task[w]
        normalized_phone == NormalizePhone(t.phone_number)
        phone_number_bytes == RedisGet(redis, PhoneKey(t.user_id))
        send(kind) == [t EXCEPT !.sent = Append(@,
                            Sent(kind, t.chat_id,
                                 IF kind = "code" THEN t.otp
                                 ELSE IF kind = "wait" THEN StrOfNat(t.cooldown)
                                 ELSE <<>>))]
        to(pc, u) == IF pc \in ReturnSites THEN Finished(u, pc) ELSE [u EXCEPT !.pc = pc]
    IN  /\ t.pc \notin {"idle", "get", "set", "done"}
        /\ t.pc = "create_otp" => call[w].pc = "done"
        /\ task' = [task EXCEPT ![w] =
              CASE t.pc = "handle" ->
                    to(Dispatch(t), [t EXCEPT !.phone_number = t.contact.phone_number])
                [] t.pc = "send_welcome" -> to("return_start", send("welcome"))
                [] t.pc = "get_phone" ->
                    IF ~Truthy(phone_number_bytes)
                    THEN to("answer_not_found", t)
                    ELSE to("get_cooldown", [t EXCEPT !.phone_number = phone_number_bytes.s])
                [] t.pc = "answer_not_found" -> to("return_not_found", send("not_found"))
                [] t.pc = "get_cooldown" ->
                    LET cooldown == Max(RedisTtl(redis,
                                            CooldownKey(PhoneStr(t.phone_number)), now), 0)
                    IN  to(CooldownBranch(cooldown), [t EXCEPT !.cooldown = cooldown])
                [] t.pc = "answer_wait" -> to("return_cooldown", send("wait"))
                [] t.pc = "save_phone" -> to("create_otp", t)
                [] t.pc = "create_otp" ->
                    to(AfterCreateOtp(call[w].status), [t EXCEPT !.otp = call[w].otp])
                [] t.pc = "send_code" -> to("send_button", send(SendOrder[1]))
                [] OTHER -> to("return_end", send(SendOrder[2]))]
        /\ redis' = IF t.pc = "save_phone"
                    THEN RedisSetex(redis, PhoneKey(t.chat_id), PHONE_TTL,
                                    normalized_phone, now)
                    ELSE redis
        /\ call' = IF t.pc = "save_phone"
                   THEN [call EXCEPT ![w] =
                            [pc |-> "get_cooldown", phone |-> PhoneStr(normalized_phone),
                             otp |-> <<>>, status |-> 0, at |-> now]]
                   ELSE IF t.pc = "create_otp" THEN [call EXCEPT ![w] = NoCall]
                   ELSE call
        /\ UNCHANGED <<HandleUnchanged, now>>

\* ------------------------------------------------------- create_otp, step by step
\* A worker serves a create_otp call; every await of create_otp is a point
\* where the other worker may run.
CallUnchanged ==
    <<ticks, otpRet, issued, used, users, nextId, client, resp, reg, job, task>>

\* the call arrives
CreateOtpStart(w, phone) ==
    /\ call[w].pc \in {"idle", "done"}
    /\ call' = [call EXCEPT ![w] = [pc |-> "get_cooldown", phone |-> phone,
                                    otp |-> <<>>, status |-> 0, at |-> now]]
    /\ UNCHANGED <<CallUnchanged, now, redis>>

\* cooldown_exists = await redis.get(cooldown_key): 429 if it exists, else
\* otp = self._generate_otp()
CreateOtpGetCooldown(w) ==
    /\ call[w].pc = "get_cooldown"
    /\ IF Truthy(RedisGet(redis, CooldownKey(call[w].phone)))
       THEN call' = [call EXCEPT ![w].pc = "done", ![w].status = HTTP_429, ![w].at = now]
       ELSE \E otp \in GenerateOtp :
                call' = [call EXCEPT ![w].pc = "setex_otp", ![w].otp = otp, ![w].at = now]
    /\ UNCHANGED <<CallUnchanged, now, redis>>

\* await redis.setex(f"otp:{phone}", 300, otp)
CreateOtpSetexOtp(w) ==
    /\ call[w].pc = "setex_otp"
    /\ redis' = RedisSetex(redis, OtpKey(call[w].phone), OTP_TTL, call[w].otp, now)
    /\ call' = [call EXCEPT ![w].pc = "setex_cooldown"]
    /\ UNCHANGED <<CallUnchanged, now>>

\* await redis.setex(cooldown_key, 60, "1")
CreateOtpSetexCooldown(w) ==
    /\ call[w].pc = "setex_cooldown"
    /\ redis' = RedisSetex(redis, CooldownKey(call[w].phone), COOLDOWN_TTL, <<"1">>, now)
    /\ call' = [call EXCEPT ![w].pc = "get_otp"]
    /\ UNCHANGED <<CallUnchanged, now>>

\* stored_otp = await redis.get(f"otp:{phone}"), printed; return otp
CreateOtpReturn(w) ==
    /\ call[w].pc = "get_otp"
    /\ call' = [call EXCEPT ![w].pc = "done", ![w].status = HTTP_200]
    /\ UNCHANGED <<CallUnchanged, now, redis>>

\* ------------------------------------------------------------ specifications
NoReg == [pc |-> "idle", phone |-> "", password |-> "", otp |-> 0,
          status |-> 0, created |-> FALSE]

NoJob == [pc |-> "idle", op |-> "", token |-> NoToken, user_id |-> <<>>, role |-> "",
          is_active |-> TRUE, admin_id |-> <<>>, status |-> 0]

NoTask == [pc |-> "idle", ret |-> "", chat_id |-> 0, user_id |-> 0, update_id |-> 0,
           last_update_id |-> PyNone, text |-> "", contact |-> NoContact,
           callback_data |-> "", phone_number |-> <<>>, cooldown |-> 0,
           otp |-> <<>>, sent |-> <<>>]

Init ==
    /\ now = 0
    /\ ticks = 0
    /\ redis = [k \in RedisKeys |-> NoEntry]
    /\ otpRet = OtpRet("none", "", HTTP_200, <<>>, FALSE, 0)
    /\ issued = [p \in Phones |-> [code |-> <<>>, at |-> 0, prev |-> <<>>]]
    /\ used = [p \in Phones |-> FALSE]
    /\ users = {}
    /\ nextId = 1
    /\ client = [c \in Phones |-> [access |-> NoToken, cookie |-> NoToken]]
    /\ resp = Resp("none", 0, "", NoToken, NoToken, <<>>, NoToken)
    /\ reg = [w \in Workers |-> NoReg]
    /\ job = [w \in Workers |-> NoJob]
    /\ task = [w \in Workers |-> NoTask]
    /\ call = [w \in Workers |-> NoCall]

\* clock advance of the token flows, in seconds: past the life of an access token
AuthDeltas == {ACCESS_TOKEN_EXPIRE_MINUTES * 60 + 1}

\* clock advance of the registration flow: the life of an OTP record
RegisterDeltas == {OTP_TTL}

\* the OTP codes a register request may carry (otp: int)
OtpInputs == SampleCodes

\* the OTP manager alone, one call at a time
NextOtp ==
    \/ \E p \in Phones : CreateOtp(p)
    \/ \E p \in Phones, c \in Candidates : VerifyOtp(p, c)
    \/ \E p \in Phones : GetCooldown(p)
    \/ \E d \in OtpDeltas : Tick(d)

SpecOtp == Init /\ [][NextOtp]_vars

\* C1: the first verify_otp(phone, c) with the code c that create_otp(phone)
\* returned, made while that record is stored, returns true and deletes the
\* record; every later verify_otp(phone, c) returns false until create_otp
\* succeeds again for the phone.
C1_VerifyOnce ==
    [][\A p \in Phones, c \in Candidates :
        (c.s = issued[p].code /\ otpRet'.op = "verify_otp" /\ VerifyOtp(p, c)) =>
            /\ (redis[OtpKey(p)].live /\ ~used[p])
                    => (otpRet'.ok /\ ~redis'[OtpKey(p)].live /\ used'[p])
            /\ used[p] => ~otpRet'.ok]_vars

\* C1 witness: the issued code was verified once and has just been refused
C1_Witness ==
    /\ otpRet.op = "verify_otp"
    /\ ~otpRet.ok
    /\ used[otpRet.phone]
    /\ otpRet.code = issued[otpRet.phone].code

\* C2: from a successful create_otp(phone) at time t0 the cooldown marker is
\* present exactly while now < t0 + 60; a create_otp(phone) made while it is
\* present fails with 429 and leaves the store unchanged, and one made once
\* 60 seconds have elapsed succeeds.
C2_Cooldown ==
    [][\A p \in Phones :
        /\ issued[p].code # <<>>
                => (redis[CooldownKey(p)].live <=> now < issued[p].at + COOLDOWN_TTL)
        /\ (issued[p].code # <<>> /\ now < issued[p].at + COOLDOWN_TTL
                /\ otpRet'.op = "create_otp" /\ CreateOtp(p))
                => (otpRet'.status = HTTP_429 /\ redis' = redis)
        /\ (issued[p].code # <<>> /\ now >= issued[p].at + COOLDOWN_TTL
                /\ otpRet'.op = "create_otp" /\ CreateOtp(p))
                => (otpRet'.status = HTTP_200 /\ otpRet'.code = redis'[OtpKey(p)].val
                    /\ redis'[CooldownKey(p)].live)]_vars

\* C2 witness: a create_otp was refused 59 seconds after the one before it
C2_Witness ==
    /\ otpRet.op = "create_otp"
    /\ otpRet.status = HTTP_429
    /\ issued[otpRet.phone].code # <<>>
    /\ otpRet.at = issued[otpRet.phone].at + COOLDOWN_TTL - 1

\* C20: a successful create_otp(phone) leaves the store holding an OTP record
\* for phone whose value is the returned code, with TTL 300 s, and a cooldown
\* marker for phone with TTL 60 s; the records of every other phone are
\* unchanged.
C20_CreateOtpWrites ==
    [][\A p \in Phones :
        (otpRet'.op = "create_otp" /\ otpRet'.status = HTTP_200 /\ CreateOtp(p)) =>
            /\ RedisGet(redis', OtpKey(p)) = PyStr(otpRet'.code)
            /\ RedisTtl(redis', OtpKey(p), now') = OTP_TTL
            /\ Truthy(RedisGet(redis', CooldownKey(p)))
            /\ RedisTtl(redis', CooldownKey(p), now') = COOLDOWN_TTL
            /\ \A q \in Phones \ {p} :
                    /\ redis'[OtpKey(q)] = redis[OtpKey(q)]
                    /\ redis'[CooldownKey(q)] = redis[CooldownKey(q)]]_vars

\* C20 witness: create_otp has just succeeded for one phone while the other
\* phone holds an older record and its cooldown has run out
C20_Witness ==
    /\ otpRet.op = "create_otp"
    /\ otpRet.status = HTTP_200
    /\ otpRet.at = now
    /\ RedisTtl(redis, OtpKey(otpRet.phone), now) = OTP_TTL
    /\ RedisTtl(redis, CooldownKey(otpRet.phone), now) = COOLDOWN_TTL
    /\ \E q \in Phones \ {otpRet.phone} :
            /\ redis[OtpKey(q)].live
            /\ ~redis[CooldownKey(q)].live

\* six decimal digits
IsSixDigits(s) == Len(s) = 6 /\ \A i \in 1..6 : IsDigitChar(s[i])

\* C21 (as amended): every code create_otp returns is a string of exactly 6
\* decimal digits whose first digit is not 0, the decimal form of a number
\* from 100000 to 999999.
C21_SixDigitsNoLeadingZero ==
    /\ \A s \in GenerateOtp : CanGenerate(s)
    /\ (otpRet.op = "create_otp" /\ otpRet.status = HTTP_200)
            => (/\ IsSixDigits(otpRet.code)
                /\ otpRet.code[1] # "0"
                /\ DigitsValue(otpRet.code) \in OTP_MIN..OTP_MAX)

\* C21 witness: create_otp has returned the smallest code there is
C21_Witness ==
    /\ otpRet.op = "create_otp"
    /\ otpRet.status = HTTP_200
    /\ otpRet.code = StrOfNat(OTP_MIN)

\* C21 as stated: every code returned is 6 decimal digits, and every 6-digit
\* string from 000000 to 999999, leading zeros included, is a possible result.
C21_AnySixDigits ==
    /\ (otpRet.op = "create_otp" /\ otpRet.status = HTTP_200) => IsSixDigits(otpRet.code)
    /\ \A s \in {<<"0", "0", "0", "0", "0", "0">>, <<"0", "9", "9", "9", "9", "9">>,
                  StrOfNat(OTP_MIN), StrOfNat(OTP_MAX)} :
            IsSixDigits(s) /\ CanGenerate(s)

\* C22: verify_otp(phone, x) with a candidate that is not numerically equal
\* to the stored code returns false and leaves the store as it was, and
\* verify_otp with a candidate numerically equal to the stored code returns
\* true, however many wrong attempts came before it.
C22_WrongAttemptKeepsRecord ==
    [][\A p \in Phones, c \in Candidates :
        (redis[OtpKey(p)].live /\ otpRet'.op = "verify_otp" /\ VerifyOtp(p, c)) =>
            IF IntOf(c).n # DigitsValue(redis[OtpKey(p)].val)
            THEN ~otpRet'.ok /\ redis' = redis
            ELSE otpRet'.ok]_vars

\* C22 witness: a wrong candidate has just been refused for a phone whose
\* issued code is still stored and unverified
C22_Witness ==
    /\ otpRet.op = "verify_otp"
    /\ ~otpRet.ok
    /\ ~used[otpRet.phone]
    /\ redis[OtpKey(otpRet.phone)].live
    /\ redis[OtpKey(otpRet.phone)].val = issued[otpRet.phone].code
    /\ DigitsValue(otpRet.code) # DigitsValue(issued[otpRet.phone].code)

\* C23: get_cooldown(phone) returns the remaining lifetime in seconds of the
\* phone's cooldown marker, between 1 and 60 while the marker of a successful
\* create_otp exists, and 0, never a negative number, when there is none.
C23_CooldownClamped ==
    [][\A p \in Phones :
        (otpRet'.op = "get_cooldown" /\ GetCooldown(p)) =>
            IF redis[CooldownKey(p)].live
            THEN /\ otpRet'.secs = issued[p].at + COOLDOWN_TTL - now
                 /\ otpRet'.secs \in 1..COOLDOWN_TTL
            ELSE otpRet'.secs = 0]_vars

\* C23 witness: get_cooldown answered 1 in the last second of the marker,
\* or 0 for a phone whose marker has run out
C23_Witness ==
    /\ otpRet.op = "get_cooldown"
    /\ otpRet.at = now
    /\ issued[otpRet.phone].code # <<>>
    /\ \/ otpRet.secs = 1 /\ now = issued[otpRet.phone].at + COOLDOWN_TTL - 1
       \/ otpRet.secs = 0 /\ now >= issued[otpRet.phone].at + COOLDOWN_TTL

\* C29: an OTP record that is neither verified nor re-issued expires 300 s
\* after the create_otp that wrote it: verify_otp with the issued code returns
\* true before that time and false from that time on.
C29_OtpExpires ==
    [][\A p \in Phones :
        LET c == PyStr(issued[p].code)
        IN  (issued[p].code # <<>> /\ ~used[p]
                /\ otpRet'.op = "verify_otp" /\ VerifyOtp(p, c)) =>
            (otpRet'.ok <=> now < issued[p].at + OTP_TTL)]_vars

\* C29 witness: the issued code, never verified, was refused exactly 300 s
\* after it was issued
C29_Witness ==
    /\ otpRet.op = "verify_otp"
    /\ ~otpRet.ok
    /\ otpRet.code = issued[otpRet.phone].code
    /\ ~used[otpRet.phone]
    /\ otpRet.at = issued[otpRet.phone].at + OTP_TTL

\* C33: at any time at most one code verifies for a phone: once a later
\* create_otp(phone) has returned a code c2 different from the earlier code
\* c1, verify_otp(phone, c1) returns false, and verify_otp(phone, c2) returns
\* true as long as c2 is neither verified nor expired.
C33_OneCodePerPhone ==
    \A p \in Phones :
        LET c1 == issued[p].prev
            c2 == issued[p].code
        IN  /\ Cardinality({c \in {StrOfNat(n) : n \in SampleCodes} :
                                VerifyOtpOn(redis, p, PyStr(c)).ok}) <= 1
            /\ (c1 # <<>> /\ c1 # c2) =>
                    /\ ~VerifyOtpOn(redis, p, PyStr(c1)).ok
                    /\ (~used[p] /\ now < issued[p].at + OTP_TTL)
                            => VerifyOtpOn(redis, p, PyStr(c2)).ok

\* C33 witness: the earlier code has just been refused while the record of
\* the later, different code is stored
C33_Witness ==
    /\ otpRet.op = "verify_otp"
    /\ otpRet.at = now
    /\ ~otpRet.ok
    /\ otpRet.code = issued[otpRet.phone].prev
    /\ issued[otpRet.phone].prev # issued[otpRet.phone].code
    /\ redis[OtpKey(otpRet.phone)].live
    /\ redis[OtpKey(otpRet.phone)].val = issued[otpRet.phone].code

\* login, token resolution and the admin routes over provisioned users, one
\* request at a time
Next ==
    \/ \E p \in Phones, r \in Roles, a \in BOOLEAN : SeedUser(p, r, a)
    \/ \E p \in Phones, pw \in Passwords : ReqLogin(p, pw)
    \/ \E tok \in TokenInputs : ReqGetCurrentUser(tok)
    \/ \E c \in Phones, id \in UserIds, r \in Roles :
            ReqUpdateUserRole(client[c].access, id, r)
    \/ \E c \in Phones, id \in UserIds, a \in BOOLEAN :
            ReqUpdateUserStatus(client[c].access, id, a)
    \/ \E c \in Phones, id \in UserIds : ReqDeleteUser(client[c].access, id)
    \/ \E c \in Phones, op \in AdminReadOps, id \in UserIds :
            ReqAdminRead(client[c].access, op, id)
    \/ \E c \in Phones : ReqRefresh(c)
    \/ \E c \in Phones :
            \E a \in {NoHeader, Authorization("Bearer", client[c].access)} : ReqLogout(c, a)
    \/ \E d \in AuthDeltas : Tick(d)

Spec == Init /\ [][Next]_vars

\* the stored user a token names as its subject
TokenOwner(tok) == {u \in users : PyStr(u.id) = tok.sub}

\* the token was signed by login with the configured key and has not expired
LiveToken(tok) == tok.key = SECRET_KEY /\ now < tok.exp

\* the token a client holds is live and names a stored, active admin
HeldByActiveAdmin(tok) ==
    /\ LiveToken(tok)
    /\ \E u \in TokenOwner(tok) : u.role = "admin" /\ u.is_active

\* C3: with requests served one at a time the number of ADMIN users never
\* goes from at least 1 to 0; an admin's request that demotes or deletes the
\* sole remaining ADMIN is rejected with 400 and changes nothing, and an
\* admin's request that demotes another of two or more admins succeeds.
C3_LastAdminKept ==
    [][/\ GetAdminCount(users) >= 1 => GetAdminCount(users') >= 1
       /\ \A c \in Phones, id \in UserIds :
            LET tok == client[c].access
                target == GetUserById(users, PyStr(id))
                target_is_admin == \E u \in target : u.role = "admin"
            IN  /\ (HeldByActiveAdmin(tok) /\ target_is_admin /\ GetAdminCount(users) = 1
                        /\ resp'.op = "update_user_role"
                        /\ ReqUpdateUserRole(tok, id, "ordinary"))
                    => (resp'.status = HTTP_400 /\ users' = users)
                /\ (HeldByActiveAdmin(tok) /\ target_is_admin /\ GetAdminCount(users) = 1
                        /\ resp'.op = "delete_user" /\ ReqDeleteUser(tok, id))
                    => (resp'.status = HTTP_400 /\ users' = users)
                /\ (HeldByActiveAdmin(tok) /\ target_is_admin /\ GetAdminCount(users) >= 2
                        /\ target # TokenOwner(tok)
                        /\ resp'.op = "update_user_role"
                        /\ ReqUpdateUserRole(tok, id, "ordinary"))
                    => (resp'.status = HTTP_200
                        /\ users' = RepoUpdateUserRole(users, id, "ordinary"))]_vars

\* C4: login with the correct password for a user whose is_active is false
\* fails with 403 and issues no access token and no refresh token.
C4_InactiveLoginForbidden ==
    [][\A p \in Phones, pw \in Passwords :
        ((\E u \in GetUserByPhone(users, p) :
                ~u.is_active /\ VerifyPassword(pw, u.hashed_password))
            /\ resp'.op = "login" /\ ReqLogin(p, pw))
        => (resp'.status = HTTP_403 /\ resp'.access = NoToken
            /\ resp'.cookie = NoToken /\ client' = client)]_vars

\* C6: get_current_user answers 401 and returns no user for every token
\* signed with a key other than the configured one and for every token whose
\* expiry is in the past.
C6_BadTokenUnauthorized ==
    \A tok \in TokenInputs :
        (tok.key # SECRET_KEY \/ tok.exp < now) =>
            LET out == GetCurrentUser(users, tok, now)
            IN  out.status = HTTP_401 /\ out.user = {}

\* C6 witness: a token that login signed was presented after its expiry
C6_Witness ==
    /\ resp.op = "get_current_user"
    /\ resp.status = HTTP_401
    /\ resp.tok.key = SECRET_KEY
    /\ resp.tok.exp < resp.at
    /\ TokenOwner(resp.tok) # {}

\* C7: login answers an unregistered phone and a registered phone with a
\* wrong password with the same response, status 401 and the same message.
C7_LoginFailuresAlike ==
    \A p \in Phones, q \in Phones, pw \in Passwords, pw2 \in Passwords :
        (/\ GetUserByPhone(users, p) = {}
         /\ \E u \in GetUserByPhone(users, q) : ~VerifyPassword(pw2, u.hashed_password))
        => /\ LoginUser(users, p, pw, now) = LoginUser(users, q, pw2, now)
           /\ LoginUser(users, p, pw, now).status = HTTP_401

\* C7 witness: a login was refused while one phone is registered and the
\* other is not
C7_Witness ==
    /\ resp.op = "login"
    /\ resp.status = HTTP_401
    /\ \E p \in Phones, q \in Phones :
        GetUserByPhone(users, p) = {} /\ GetUserByPhone(users, q) # {}

\* C12: logout always answers 200 and clears the refresh_token cookie, with a
\* bearer token in the Authorization header and without one.
C12_LogoutSucceeds ==
    [][\A c \in Phones :
        \A a \in {NoHeader, Authorization("Bearer", client[c].access)} :
            (resp'.op = "logout" /\ ReqLogout(c, a))
                => (resp'.status = HTTP_200 /\ client'[c].cookie = NoToken)]_vars

\* C13: a logout that carries an unexpired access token puts the token on a
\* blacklist in the ephemeral store, and get_current_user answers 401 for the
\* token from then on although its expiry has not passed.
C13_LogoutRevokesToken ==
    [][\A c \in Phones :
        LET tok == client[c].access
        IN  (LiveToken(tok) /\ resp'.op = "logout"
                /\ ReqLogout(c, Authorization("Bearer", tok)))
            => (redis' # redis
                /\ GetCurrentUser(users', tok, now').status = HTTP_401)]_vars

\* C14: refresh with the unexpired refresh token login issued, for a user
\* who still exists, answers 200 with a new access token whose subject is that
\* user, sets no refresh cookie and leaves the client's refresh token as it was.
C14_RefreshIssuesAccessOnly ==
    [][\A c \in Phones :
        LET tok == client[c].cookie
        IN  (LiveToken(tok) /\ TokenOwner(tok) # {}
                /\ resp'.op = "refresh" /\ ReqRefresh(c))
            => (/\ resp'.status = HTTP_200
                /\ resp'.access.sub = tok.sub
                /\ resp'.access.key = SECRET_KEY
                /\ resp'.cookie = NoToken
                /\ client'[c].cookie = tok)]_vars

\* a request to one of the admin routes with bearer token tok
AdminOps == AdminReadOps \cup {"update_user_role", "update_user_status", "delete_user"}

AdminRequest(tok) ==
    \E id \in UserIds :
        \/ \E r \in Roles : ReqUpdateUserRole(tok, id, r)
        \/ \E a \in BOOLEAN : ReqUpdateUserStatus(tok, id, a)
        \/ ReqDeleteUser(tok, id)
        \/ \E op \in AdminReadOps : ReqAdminRead(tok, op, id)

\* C16: an admin operation is carried out only for a bearer token that
\* resolves to an active ADMIN; a request whose token resolves to a user who
\* is not ADMIN or not active is answered 403 and changes no user.
C16_AdminOnly ==
    [][/\ (resp'.op \in AdminOps /\ resp'.status = HTTP_200 /\ resp' # resp)
            => HeldByActiveAdmin(resp'.tok)
       /\ \A c \in Phones :
            LET tok == client[c].access
            IN  (LiveToken(tok) /\ TokenOwner(tok) # {} /\ ~HeldByActiveAdmin(tok)
                    /\ resp'.op \in AdminOps /\ AdminRequest(tok))
                => (resp'.status = HTTP_403 /\ users' = users)]_vars

\* C37: the body of update_user_role, entered for an active admin, refuses a
\* request for the last-admin reason only when the change would leave no
\* ADMIN user; a request that sets ORDINARY on another stored user who is
\* already ORDINARY succeeds even when exactly one admin exists.
C37_LastAdminReasonOnly ==
    \A a \in {u \in users : u.role = "admin" /\ u.is_active}, id \in UserIds, r \in Roles :
        LET out == UpdateUserRole(users, a, id, r)
        IN  /\ (out.status = HTTP_400 /\ id # a.id)
                    => GetAdminCount(RepoUpdateUserRole(users, id, r)) = 0
            /\ (r = "ordinary" /\ id # a.id
                    /\ \E u \in users : u.id = id /\ u.role = "ordinary")
                    => out.status = HTTP_200

\* active admins log in and use the admin routes while rows of the user store
\* are demoted, deactivated and restored
NextChanged ==
    \/ \E p \in Phones : SeedUser(p, "admin", TRUE)
    \/ \E p \in Phones : ReqLogin(p, "Password123")
    \/ \E id \in UserIds, r \in Roles, a \in BOOLEAN : ChangeUser(id, r, a)
    \/ \E c \in Phones, id \in UserIds, r \in Roles :
            ReqUpdateUserRole(client[c].access, id, r)
    \/ \E c \in Phones, id \in UserIds, a \in BOOLEAN :
            ReqUpdateUserStatus(client[c].access, id, a)
    \/ \E c \in Phones, id \in UserIds : ReqDeleteUser(client[c].access, id)
    \/ \E c \in Phones, op \in AdminReadOps, id \in UserIds :
            ReqAdminRead(client[c].access, op, id)
    \/ \E d \in AuthDeltas : Tick(d)

SpecChanged == Init /\ [][NextChanged]_vars

\* C35: authorization follows the stored row at request time: when the user
\* an unexpired access token was issued to has since been demoted to ORDINARY
\* or deactivated, every admin operation attempted with that token is
\* answered 403 and changes no user.
C35_StaleTokenForbidden ==
    [][\A c \in Phones :
        LET tok == client[c].access
        IN  (/\ LiveToken(tok)
             /\ \E u \in TokenOwner(tok) : u.role = "ordinary" \/ ~u.is_active
             /\ resp'.op \in AdminOps
             /\ AdminRequest(tok)) =>
                (resp'.status = HTTP_403 /\ users' = users)]_vars

\* status-change, role-change and delete requests of logged-in admins served
\* concurrently by two workers
NextConcurrentAdmin ==
    \/ \E p \in Phones : SeedUser(p, "admin", TRUE)
    \/ \E p \in Phones : ReqLogin(p, "Password123")
    \/ \E w \in Workers, c \in Phones, id \in UserIds, r \in Roles : RoleStart(w, c, id, r)
    \/ \E w \in Workers, c \in Phones, id \in UserIds, a \in BOOLEAN :
            StatusStart(w, c, id, a)
    \/ \E w \in Workers, c \in Phones, id \in UserIds : DeleteStart(w, c, id)
    \/ \E w \in Workers : RoleStep(w)
    \/ \E w \in Workers : StatusStep(w)

SpecConcurrentAdmin == Init /\ [][NextConcurrentAdmin]_vars

\* C38: starting from a store with an active ADMIN, under any interleaving of
\* status-change, role-change and delete requests a user that is ADMIN and
\* active always remains, and the admin routes stay reachable: the request
\* of an active admin with an unexpired token passes the dependency.
C38_ActiveAdminRemains ==
    [][/\ (\E u \in users : u.role = "admin" /\ u.is_active)
            => (\E u \in users' : u.role = "admin" /\ u.is_active)
       /\ \A w \in Workers :
            (job[w].pc = "depends" /\ HeldByActiveAdmin(job[w].token)
                /\ (RoleStep(w) \/ StatusStep(w)))
                => (job'[w].pc = "get_user" /\ PyStr(job'[w].admin_id) = job[w].token.sub)]_vars

\* C17: an active admin's role-change, status-change or delete request on
\* the admin's own id is answered 400 and leaves the admin's row as it was;
\* the same status change or promotion on another stored user succeeds.
C17_NoSelfChange ==
    [][\A c \in Phones :
        LET tok == client[c].access
        IN  HeldByActiveAdmin(tok) =>
            \A id \in UserIds :
                /\ (PyStr(id) = tok.sub
                        /\ resp'.op \in {"update_user_role", "update_user_status", "delete_user"}
                        /\ (\/ \E r \in Roles : ReqUpdateUserRole(tok, id, r)
                            \/ \E a \in BOOLEAN : ReqUpdateUserStatus(tok, id, a)
                            \/ ReqDeleteUser(tok, id)))
                    => (resp'.status = HTTP_400 /\ users' = users
                        /\ \E u \in users' : u.id = id /\ u.role = "admin" /\ u.is_active)
                /\ (PyStr(id) # tok.sub /\ GetUserById(users, PyStr(id)) # {}
                        /\ resp'.op \in {"update_user_role", "update_user_status"}
                        /\ (\/ ReqUpdateUserRole(tok, id, "admin")
                            \/ \E a \in BOOLEAN : ReqUpdateUserStatus(tok, id, a)))
                    => resp'.status = HTTP_200]_vars

\* login, token resolution and refresh over users that are provisioned and
\* removed, one request at a time
NextRemoved ==
    \/ \E p \in Phones, r \in Roles, a \in BOOLEAN : SeedUser(p, r, a)
    \/ \E p \in Phones, pw \in Passwords : ReqLogin(p, pw)
    \/ \E id \in UserIds : RemoveUser(id)
    \/ \E c \in Phones : ReqGetCurrentUser(client[c].access)
    \/ \E c \in Phones : ReqRefresh(c)
    \/ \E d \in AuthDeltas : Tick(d)

SpecRemoved == Init /\ [][NextRemoved]_vars

\* C15: once a user is deleted, get_current_user with the user's access
\* token and refresh with the user's refresh token answer 401, although the
\* tokens carry the right signature and have not expired.
C15_DeletedUserRejected ==
    [][\A c \in Phones :
        /\ (LiveToken(client[c].access) /\ TokenOwner(client[c].access) = {}
                /\ resp'.op = "get_current_user" /\ ReqGetCurrentUser(client[c].access))
            => resp'.status = HTTP_401
        /\ (LiveToken(client[c].cookie) /\ TokenOwner(client[c].cookie) = {}
                /\ resp'.op = "refresh" /\ ReqRefresh(c))
            => (resp'.status = HTTP_401 /\ resp'.access = NoToken)]_vars

\* C15 witness: get_current_user has just refused the unexpired access token
\* of a user who logged in and was deleted afterwards
C15_Witness ==
    /\ resp.op = "get_current_user"
    /\ resp.status = HTTP_401
    /\ resp.at = now
    /\ LiveToken(resp.tok)
    /\ TokenOwner(resp.tok) = {}
    /\ \E c \in Phones : client[c].access = resp.tok

\* the same for refresh and the refresh token of the deleted user
C15_WitnessRefresh ==
    /\ resp.op = "refresh"
    /\ resp.status = HTTP_401
    /\ resp.at = now
    /\ LiveToken(resp.tok)
    /\ TokenOwner(resp.tok) = {}
    /\ \E c \in Phones : client[c].cookie = resp.tok

\* role-change requests of logged-in users served concurrently by two workers
NextConcurrentRole ==
    \/ \E p \in Phones, r \in Roles, a \in BOOLEAN : SeedUser(p, r, a)
    \/ \E p \in Phones, pw \in Passwords : ReqLogin(p, pw)
    \/ \E w \in Workers, c \in Phones, id \in UserIds, r \in Roles : RoleStart(w, c, id, r)
    \/ \E w \in Workers : RoleStep(w)

SpecConcurrentRole == Init /\ [][NextConcurrentRole]_vars

\* C18: the role-change requests of two different active admins who each
\* demote the other pass the dependency, both read the admin count before
\* either update commits, and both commit: a request that has read a count of
\* 2 updates the role without reading the count again.
C18_DemotionRace ==
    [][\A w \in Workers :
        /\ (job[w].pc = "depends" /\ HeldByActiveAdmin(job[w].token) /\ RoleStep(w))
                => job'[w].pc = "get_user"
        /\ (job[w].pc = "update" /\ RoleStep(w))
                => users' = RepoUpdateUserRole(users, job[w].user_id, job[w].role)]_vars

\* clock advance of the update flow: the life of a dedup marker
TelegramDeltas == {DEDUP_TTL}

\* the process_update tasks the webhook spawned, interleaved at their awaits
NextTelegram ==
    \/ \E w \in Workers, data \in DedupUpdates : TelegramWebhook(w, data)
    \/ \E w \in Workers : ProcessUpdateGet(w)
    \/ \E w \in Workers : ProcessUpdateSet(w)
    \/ \E w \in Workers : ProcessUpdateHandle(w)
    \/ \E d \in TelegramDeltas : Tick(d)

SpecTelegram == Init /\ [][NextTelegram]_vars

\* C19: under any interleaving of the process_update tasks, an update is
\* accepted for its conversation only if its update_id is strictly greater
\* than the marker the store holds for the conversation at that moment, and
\* a live marker never decreases; so no update_id is processed twice while
\* the marker is alive.
C19_DedupMonotonic ==
    [][\A w \in Workers :
        LET k == LastUpdateKey(task[w].chat_id)
        IN  (task[w].pc = "set" /\ redis[k].live /\ ProcessUpdateSet(w)) =>
                /\ task'[w].pc = "handle"
                        => IntOf(PyStr(redis[k].val)).n < task[w].update_id
                /\ redis'[k].live
                /\ IntOf(PyStr(redis'[k].val)).n >= IntOf(PyStr(redis[k].val)).n]_vars

\* clock advance of the OTP conversation: the life of a cooldown marker and
\* of a saved phone number
FlowDeltas == {COOLDOWN_TTL, PHONE_TTL}

\* the OTP conversation is followed with one task at a time: an update
\* arrives when the task of the one before has ended
FlowWorkers == {"w1"}

\* the tasks of the conversation in chat chat_id with sender user_id and the
\* create_otp calls they make, await by await, while the clock advances
NextFlow(chat_id, user_id) ==
    \/ \E w \in FlowWorkers, data \in FlowUpdates(chat_id, user_id) :
            TelegramWebhook(w, data)
    \/ \E w \in FlowWorkers : ProcessUpdateGet(w)
    \/ \E w \in FlowWorkers : ProcessUpdateSet(w)
    \/ \E w \in FlowWorkers : ProcessUpdateHandle(w)
    \/ \E w \in FlowWorkers : CreateOtpGetCooldown(w)
    \/ \E w \in FlowWorkers : CreateOtpSetexOtp(w)
    \/ \E w \in FlowWorkers : CreateOtpSetexCooldown(w)
    \/ \E w \in FlowWorkers : CreateOtpReturn(w)
    \/ \E d \in FlowDeltas : Tick(d)

\* the OTP conversation in the private chat of sender 1001
NextPrivateChat == NextFlow(1001, 1001)

SpecPrivateChat == Init /\ [][NextPrivateChat]_vars

\* the OTP conversation of sender 1003 in the group chat
NextGroupChat == NextFlow(1002, 1003)

SpecGroupChat == Init /\ [][NextGroupChat]_vars

\* C24: once send_otp_with_button has saved the phone number of a
\* conversation, and while that saved number is alive (600 s), a press of the
\* resend button coming from the conversation resolves to that number,
\* whatever the chat id and the sender id of the press.
C24_ResendResolvesPhone ==
    [][\A w \in Workers :
        LET t == task[w]
        IN  (t.pc = "get_phone" /\ redis[PhoneKey(t.chat_id)].live
                /\ ProcessUpdateHandle(w)) =>
                /\ task'[w].pc = "get_cooldown"
                /\ task'[w].phone_number = redis[PhoneKey(t.chat_id)].val]_vars

\* C25: a press of the resend button handled while the cooldown marker of
\* the resolved phone is alive is answered with the wait and nothing else:
\* the store is left as it was (no OTP record, no cooldown marker, no phone
\* number written), create_otp is not called and no code is sent; a press
\* handled when the marker is gone goes on to send_otp_with_button, whose
\* create_otp call succeeds and whose code is the one sent.
C25_ResendCooldown ==
    [][\A w \in Workers :
        LET t == task[w]
        IN  /\ (t.pc = "get_cooldown" /\ ProcessUpdateHandle(w)) =>
                    IF redis[CooldownKey(PhoneStr(t.phone_number))].live
                    THEN /\ task'[w].pc = "answer_wait"
                         /\ task'[w].cooldown \in 1..COOLDOWN_TTL
                         /\ redis' = redis
                         /\ call' = call
                    ELSE task'[w].pc = "save_phone"
            /\ (t.pc = "answer_wait" /\ ProcessUpdateHandle(w)) =>
                    /\ task'[w].pc = "done"
                    /\ task'[w].sent = <<Sent("wait", t.chat_id, StrOfNat(t.cooldown))>>
                    /\ redis' = redis
                    /\ call' = call
            /\ (t.pc = "create_otp" /\ t.callback_data = "request_otp"
                    /\ ProcessUpdateHandle(w)) =>
                    /\ call[w].status = HTTP_200
                    /\ CanGenerate(call[w].otp)
                    /\ task'[w].pc = "send_code"
                    /\ task'[w].otp = call[w].otp
            /\ (t.pc = "send_code" /\ t.callback_data = "request_otp"
                    /\ ProcessUpdateHandle(w)) =>
                    task'[w].sent = <<Sent("code", t.chat_id, t.otp)>>]_vars

\* C25 witness: a press of the resend button has just been answered with the
\* wait while the OTP record and the cooldown marker of the phone are alive
C25_Witness ==
    \E w \in Workers, p \in Phones :
        /\ task[w].pc = "done"
        /\ Len(task[w].sent) = 1
        /\ task[w].sent[1].kind = "wait"
        /\ redis[PhoneKey(task[w].chat_id)].live
        /\ PhoneStr(redis[PhoneKey(task[w].chat_id)].val) = p
        /\ redis[CooldownKey(p)].live
        /\ redis[OtpKey(p)].live

\* C26: within the handling of one update the code message is sent, and its
\* send has returned, before the message with the resend button is sent, and
\* a code message carries a code create_otp returned: after a refused
\* create_otp neither message is sent.
C26_CodeBeforeButton ==
    \A w \in Workers :
        LET t == task[w]
        IN  /\ \A i \in 1..Len(t.sent) :
                    /\ t.sent[i].kind = "resend_button"
                            => (i > 1 /\ t.sent[i - 1].kind = "code")
                    /\ t.sent[i].kind = "code"
                            => (i = 1 /\ CanGenerate(t.sent[i].body))
            /\ t.pc \in {"send_code", "send_button"} => CanGenerate(t.otp)
            /\ t.pc = "send_code" => t.sent = <<>>
            /\ t.pc = "send_button" => t.sent = <<Sent("code", t.chat_id, t.otp)>>

\* C26 witness: a task has sent the code and then the resend button
C26_Witness ==
    \E w \in Workers :
        /\ task[w].pc = "done"
        /\ Len(task[w].sent) = 2
        /\ task[w].sent[1].kind = "code"
        /\ task[w].sent[2].kind = "resend_button"

\* the digits of a phone text: what is left without its plus signs
PhoneDigits(text) == SelectSeq(text, LAMBDA c : c # "+")

\* C31: the phone number of a shared contact is brought to the form of one
\* '+' followed by its digits before it is saved for the conversation and
\* handed to create_otp, so the same number with no, one or several leading
\* '+' gives the same saved value and the same OTP key; normalizing the saved
\* value again leaves it as it is.
C31_PhoneNormalized ==
    [][\A w \in Workers :
        LET t == task[w]
        IN  (t.pc = "save_phone" /\ ProcessUpdateHandle(w)) =>
                LET saved == redis'[PhoneKey(t.chat_id)].val
                IN  /\ saved = <<"+">> \o PhoneDigits(t.phone_number)
                    /\ NormalizePhone(saved) = saved
                    /\ call'[w].phone \in Phones
                    /\ PhoneChars(call'[w].phone) = saved]_vars

\* C31 witness: a contact shared with two leading '+' has been saved with one
C31_Witness ==
    \E w \in Workers :
        /\ task[w].pc = "create_otp"
        /\ Len(task[w].phone_number) = 3
        /\ redis[PhoneKey(task[w].chat_id)].live
        /\ redis[PhoneKey(task[w].chat_id)].val = Tail(task[w].phone_number)
        /\ call[w].phone = PhoneStr(Tail(task[w].phone_number))

\* C36: the contact branch goes on to send_otp_with_button only for a contact
\* whose user_id is the id of the sender of the message; an update carrying
\* another person's contact ends there: no OTP record, no cooldown marker and
\* no phone number is written, create_otp is not called and nothing is sent.
C36_OwnContactOnly ==
    [][\A w \in Workers :
        LET t == task[w]
        IN  (t.pc = "handle" /\ t.contact # NoContact /\ ProcessUpdateHandle(w)) =>
                IF t.contact.user_id = t.user_id
                THEN task'[w].pc = "save_phone"
                ELSE /\ task'[w].pc = "done"
                     /\ task'[w].sent = <<>>
                     /\ redis' = redis
                     /\ call' = call]_vars

\* C36 witness: the task of an update with another person's contact has ended
\* at the check of the contact's user_id, and the store holds no OTP record,
\* no cooldown marker and no phone number
C36_Witness ==
    \E w \in Workers :
        /\ task[w].pc = "done"
        /\ task[w].ret = "return_contact"
        /\ task[w].sent = <<>>
        /\ \A p \in Phones : ~redis[OtpKey(p)].live /\ ~redis[CooldownKey(p)].live
        /\ \A i \in Chats \cup Senders : ~redis[PhoneKey(i)].live

\* clock advance of concurrent create_otp calls: the life of a cooldown marker
CooldownDeltas == {COOLDOWN_TTL}

\* create_otp calls served concurrently by two workers
NextConcurrentOtp ==
    \/ \E w \in Workers, p \in Phones : CreateOtpStart(w, p)
    \/ \E w \in Workers : CreateOtpGetCooldown(w)
    \/ \E w \in Workers : CreateOtpSetexOtp(w)
    \/ \E w \in Workers : CreateOtpSetexCooldown(w)
    \/ \E w \in Workers : CreateOtpReturn(w)
    \/ \E d \in CooldownDeltas : Tick(d)

SpecConcurrentOtp == Init /\ [][NextConcurrentOtp]_vars

\* C30: under any interleaving of concurrent create_otp calls for one phone,
\* at most one of the calls that read the cooldown marker within one 60 s
\* window succeeds; the others fail with 429.
C30_OneOtpPerWindow ==
    \A w1 \in Workers, w2 \in Workers :
        (/\ w1 # w2
         /\ call[w1].phone = call[w2].phone
         /\ call[w1].pc = "done" /\ call[w2].pc = "done"
         /\ call[w1].at <= call[w2].at /\ call[w2].at < call[w1].at + COOLDOWN_TTL)
            => ~(call[w1].status = HTTP_200 /\ call[w2].status = HTTP_200)

C28_RefreshTokenMintsOnly ==
    [][\A c \in Phones :
        LET tok == client[c].cookie
        IN  (LiveToken(tok) /\ TokenOwner(tok) # {}) =>
            /\ (resp'.op = "refresh" /\ ReqRefresh(c))
                    => (resp'.status = HTTP_200 /\ resp'.access # NoToken)
            /\ (resp'.op = "get_current_user" /\ ReqGetCurrentUser(tok))
                    => resp'.status = HTTP_401]_vars

\* registration through the OTP manager, then login and token resolution,
\* one request at a time
NextRegister ==
    \/ \E p \in Phones : CreateOtp(p)
    \/ \E p \in Phones, o \in OtpInputs : ReqRegister(p, "Password123", o)
    \/ \E p \in Phones, pw \in Passwords : ReqLogin(p, pw)
    \/ \E c \in Phones : ReqGetCurrentUser(client[c].access)
    \/ \E d \in RegisterDeltas : ticks < MaxRegisterTicks /\ Tick(d)

SpecRegister == Init /\ [][NextRegister]_vars

\* C5: for a user created by register, the access token that login returned
\* for that user is accepted by get_current_user, which resolves it to
\* exactly that user.
C5_LoginTokenResolves ==
    [][\A c \in Phones :
        LET tok == client[c].access
        IN  (LiveToken(tok) /\ TokenOwner(tok) # {}
                /\ resp'.op = "get_current_user" /\ ReqGetCurrentUser(tok))
            => (resp'.status = HTTP_200
                /\ \E u \in TokenOwner(tok) : resp'.user = u.id)]_vars

\* C9: a register that fails because the phone is registered, or because
\* the OTP of the phone is absent or does not match, answers 400 and leaves
\* the user store unchanged.
C9_FailedRegisterNoUser ==
    [][\A p \in Phones, o \in OtpInputs :
        ((GetUserByPhone(users, p) # {} \/ ~VerifyOtpOn(redis, p, PyInt(o)).ok)
            /\ resp'.op = "register" /\ ReqRegister(p, "Password123", o))
        => (resp'.status = HTTP_400 /\ users' = users)]_vars

\* C9 witness: a register was refused for its OTP while a record for another
\* code was stored, and one was refused for a phone already registered
C9_Witness ==
    /\ resp.op = "register"
    /\ resp.status = HTTP_400
    /\ resp.detail = "Invalid OTP"
    /\ users # {}
    /\ \E p \in Phones : GetUserByPhone(users, p) = {} /\ redis[OtpKey(p)].live

\* C10: a register with an unregistered phone and a matching OTP returns the
\* result of the login flow: an access token in the body and the refresh
\* token cookie.
C10_RegisterReturnsSession ==
    (resp.op = "register" /\ resp.status \in {HTTP_200, HTTP_201})
        => (resp.access # NoToken /\ resp.cookie # NoToken)

\* C11: every user created through register has role ORDINARY and is_active
\* true; no sequence of register calls, whatever role their bodies ask for,
\* stores a user with role ADMIN.
C11_RegisteredOrdinary ==
    \A u \in users : u.role = "ordinary" /\ u.is_active

\* C11 witness: register has just stored a user
C11_Witness ==
    /\ resp.op = "register"
    /\ resp.status = HTTP_201
    /\ \E u \in users : u.id = Uuid(nextId - 1)

\* register requests served concurrently by two workers
NextConcurrentRegister ==
    \/ \E p \in Phones : CreateOtp(p)
    \/ \E w \in Workers, p \in Phones, o \in OtpInputs : RegStart(w, p, "Password123", o)
    \/ \E w \in Workers : RegCheckExisting(w)
    \/ \E w \in Workers : RegOtpGet(w)
    \/ \E w \in Workers : RegOtpDelete(w)
    \/ \E w \in Workers : RegInsert(w)
    \/ \E w \in Workers : RegLogin(w)

SpecConcurrentRegister == Init /\ [][NextConcurrentRegister]_vars

\* C8: no two user rows share a phone_number, and of two register calls
\* served concurrently for one phone at most one creates a user.
C8_PhoneUnique ==
    /\ \A u1 \in users, u2 \in users : u1.phone_number = u2.phone_number => u1 = u2
    /\ \A w1 \in Workers, w2 \in Workers :
        (w1 # w2 /\ reg[w1].phone = reg[w2].phone)
            => ~(reg[w1].created /\ reg[w2].created)

\* C8 witness: both workers passed the existence check and the OTP check for
\* one phone; one stored the user and the other's insert was refused
C8_Witness ==
    \E w1 \in Workers, w2 \in Workers :
        /\ w1 # w2
        /\ reg[w1].phone = reg[w2].phone
        /\ reg[w1].created
        /\ reg[w2].pc = "done"
        /\ reg[w2].status = HTTP_500

\* C32: under any interleaving of concurrent verify_otp calls that carry the
\* code create_otp issued for the phone, as two concurrent register requests
\* make them, at most one of the calls returns true.
C32_OneVerifyWins ==
    \A w1 \in Workers, w2 \in Workers :
        (w1 # w2 /\ reg[w1].phone = reg[w2].phone)
            => ~(reg[w1].pc = "insert" /\ reg[w2].pc = "insert")

\* C34: an OTP verifies only for the phone it was issued for: a register for
\* phone p2 that carries a code issued for another phone p1, when no code of
\* that value was issued for p2, fails verify_otp and is answered 400; the
\* store, and with it the record of p1, is left as it was and no user is
\* created.
C34_OtpBoundToPhone ==
    [][\A w \in Workers, p1 \in Phones :
        LET r == reg[w]
        IN  (/\ r.pc = "otp_get"
             /\ p1 # r.phone
             /\ issued[p1].code # <<>>
             /\ DigitsValue(issued[p1].code) = r.otp
             /\ issued[r.phone].code = <<>> \/ DigitsValue(issued[r.phone].code) # r.otp
             /\ RegOtpGet(w)) =>
                /\ reg'[w].pc = "done"
                /\ reg'[w].status = HTTP_400
                /\ ~reg'[w].created
                /\ redis' = redis
                /\ users' = users]_vars

\* C34 witness: a register for an unregistered phone has been refused with
\* the code whose record the other phone still holds
C34_Witness ==
    \E w \in Workers, p1 \in Phones :
        /\ reg[w].pc = "done"
        /\ reg[w].status = HTTP_400
        /\ p1 # reg[w].phone
        /\ GetUserByPhone(users, reg[w].phone) = {}
        /\ redis[OtpKey(p1)].live
        /\ DigitsValue(redis[OtpKey(p1)].val) = reg[w].otp
        /\ ~redis[OtpKey(reg[w].phone)].live

====
